---- MODULE Spec2Model ----
(***************************************************************************)
(* The local persistence and backup/restore layer of sober-balance:        *)
(* DatabaseService of src/utils/database.ts, with the screens that call it.*)
(*                                                                         *)
(* The structured store is `tables` (one set of rows per SQLite table)     *)
(* with `seq`, SQLite's AUTOINCREMENT counters; the key-value area holds   *)
(* the snapshot under 'sober_balance_backup' (`snapshot`); `db` is the     *)
(* service's handle.  Time is a tick counter `now`; a calendar date is a   *)
(* block of TicksPerDay ticks.                                             *)
(***************************************************************************)
EXTENDS Integers, Sequences, FiniteSets, TLC

VARIABLES
    db,         \* this.db: "null" or "open"
    tables,     \* the rows of every table
    seq,        \* sqlite_sequence: the largest rowid each table ever held
    snapshot,   \* AsyncStorage item 'sober_balance_backup'
    now,        \* the wall clock, in ticks
    last,       \* what the most recent call did and returned (observer)
    call,       \* the in-flight singleton save of the overlapping-calls specification
    backedUp,   \* the user tables as they were at the last backup written (observer)
    retry,      \* the retryOperation loop in flight
    inits,      \* the init() sequences in flight, one per caller
    schema      \* which of journal_entries, intentions have their updated_at column

vars == <<db, tables, seq, snapshot, now, last, call, backedUp, retry, inits, schema>>

\* what the calls of the service proper leave alone
aside == <<retry, inits, schema>>

----------------------------------------------------------------------------
(* Bounds *)

MaxRows == 2          \* rows the calls of one run may insert, over all user tables
MaxNow == 3           \* the clock stops here
TicksPerDay == 2      \* ticks in one calendar date
SeedSize == 2         \* messages in the seed catalog
MaxCheckIns == 31     \* largest check-in history drawn as an input
MaxSosLogs == 51      \* largest SOS log drawn as an input
MaxDays == 3          \* calendar days a sober date and the clock are drawn from
MaxInits == 2         \* init() invocations in one run
MaxAttempts == 3      \* largest maxRetries drawn as an input

(* Program constants *)

CheckInHistoryLimit == 30
SOSLogLimit == 50
maxRetries == 3
DelaysMs == {500, 1000}  \* delayMs: the callers' 500 and the default

Names == {"a"}           \* names a create or save is given
NewNames == {"b"}        \* names an update is given
NullTime == -1        \* SQL NULL / JS null or undefined in a time column
NullId == 0           \* SQL NULL / JS undefined bound as an id
NullText == "NULL"    \* SQL NULL / JS undefined bound as a text

UserTables == {"users", "support_persons", "sobriety_data", "user_reasons",
               "sos_logs", "journal_entries", "intentions", "daily_check_ins"}
TableNames == UserTables \cup {"encouragements"}

Max(a, b) == IF a >= b THEN a ELSE b

DateOf(t) == t \div TicksPerDay

\* the rows inserted so far, which the calls of a run keep within MaxRows
Inserted(s) == s["users"] + s["support_persons"] + s["sobriety_data"] + s["user_reasons"]
               + s["sos_logs"] + s["journal_entries"] + s["intentions"] + s["daily_check_ins"]

----------------------------------------------------------------------------
(* SQLite: the schema's constraints and the statements the service issues *)

EmptyTables == [tn \in TableNames |-> {}]
ZeroSeq == [tn \in TableNames |-> 0]

MaxRowId(rows) == IF rows = {} THEN 0 ELSE CHOOSE m \in {r.id : r \in rows} : \A r \in rows : r.id <= m

\* INTEGER PRIMARY KEY AUTOINCREMENT: one more than the largest rowid the table ever held
NextRowId(t, s, tn) == Max(s[tn], MaxRowId(t[tn])) + 1

\* the NOT NULL text columns of each table
NotNullOk(tn, row) ==
    CASE tn = "users" -> row.name # NullText
      [] tn = "support_persons" -> row.name # NullText /\ row.phone # NullText
      [] tn = "sobriety_data" -> row.tracking_mode # NullText
      [] tn = "user_reasons" -> row.reason # NullText
      [] tn = "sos_logs" -> row.timestamp # NullTime
      [] tn = "journal_entries" -> row.content # NullText /\ row.timestamp # NullTime
      [] tn = "intentions" -> row.content # NullText /\ row.timestamp # NullTime
      [] tn = "daily_check_ins" -> row.goal # NullText /\ row.energy # NullText /\ row.tone # NullText
                                   /\ row.thankful # NullText /\ row.date # NullTime
      [] OTHER -> TRUE

\* conflict on the primary key alone, as if daily_check_ins.date were not UNIQUE
ConflictsMut(tn, x, row) == x.id = row.id

\* a row in conflict with `row`: the same primary key, or the same value of a UNIQUE column
Conflicts(tn, x, row) == x.id = row.id \/ (tn = "daily_check_ins" /\ x.date = row.date)

\* A statement works on st = [tables, seq, ok, id]; once one statement has thrown
\* (ok = FALSE) the rest of the try block is skipped.
St(t, s) == [tables |-> t, seq |-> s, ok |-> TRUE, id |-> 0]

Throw(st) == [st EXCEPT !.ok = FALSE, !.id = 0]

\* the row is stored unless a constraint is violated, which throws
insertRow(st, tn, row) ==
    IF ~NotNullOk(tn, row) \/ \E x \in st.tables[tn] : Conflicts(tn, x, row)
    THEN Throw(st)
    ELSE [tables |-> [st.tables EXCEPT ![tn] = @ \cup {row}],
          seq |-> [st.seq EXCEPT ![tn] = Max(@, row.id)], ok |-> TRUE, id |-> row.id]

\* INSERT INTO tn (...) VALUES (...), the id not given: a new rowid
Insert(st, tn, fields) ==
    IF ~st.ok THEN st
    ELSE insertRow(st, tn, [fields EXCEPT !.id = NextRowId(st.tables, st.seq, tn)])

\* a blind INSERT in the place of INSERT OR REPLACE: a fresh rowid, no row deleted
InsertOrReplaceMut(st, tn, fields) ==
    IF ~st.ok THEN st
    ELSE IF ~NotNullOk(tn, fields) THEN Throw(st)
    ELSE [tables |-> [st.tables EXCEPT ![tn] =
                          @ \cup {[fields EXCEPT !.id = NextRowId(st.tables, st.seq, tn)]}],
          seq |-> [st.seq EXCEPT ![tn] = NextRowId(st.tables, st.seq, tn)],
          ok |-> TRUE, id |-> NextRowId(st.tables, st.seq, tn)]

\* the rows in conflict with the row are deleted, then the row is stored; a NULL in a
\* NOT NULL column without default still throws
replaceRow(st, tn, row) ==
    IF ~NotNullOk(tn, row)
    THEN Throw(st)
    ELSE [tables |-> [st.tables EXCEPT ![tn] = {x \in @ : ~Conflicts(tn, x, row)} \cup {row}],
          seq |-> [st.seq EXCEPT ![tn] = Max(@, row.id)], ok |-> TRUE, id |-> row.id]

\* INSERT OR REPLACE INTO tn (id, ...) VALUES (...): a NULL id is a new rowid
InsertOrReplace(st, tn, fields) ==
    IF ~st.ok THEN st
    ELSE replaceRow(st, tn, [fields EXCEPT !.id = IF @ = NullId
                                                   THEN NextRowId(st.tables, st.seq, tn)
                                                   ELSE @])

\* DELETE FROM tn (the AUTOINCREMENT counter is kept)
DeleteAll(st, tn) ==
    IF ~st.ok THEN st ELSE [st EXCEPT !.tables[tn] = {}]

\* DELETE FROM tn WHERE id = ?
DeleteById(st, tn, id) ==
    IF ~st.ok THEN st ELSE [st EXCEPT !.tables[tn] = {r \in @ : r.id # id}]

\* DELETE FROM daily_check_ins WHERE date = ?
DeleteByDate(st, date) ==
    IF ~st.ok THEN st ELSE [st EXCEPT !.tables["daily_check_ins"] = {r \in @ : r.date # date}]

\* the statement in flight fails in the store (I/O error, locked or closed database)
FailIf(st, fails) == IF fails THEN Throw(st) ELSE st

----------------------------------------------------------------------------
(* Reads *)

\* the rows in descending order of key(r); equal keys in rowid order
TopRow(rows, col) ==
    CHOOSE r \in rows : \A x \in rows : x[col] < r[col] \/ (x[col] = r[col] /\ x.id >= r.id)

RECURSIVE OrderDescFrom(_, _, _)
OrderDescFrom(rows, col, top) ==
    IF rows = {top} THEN <<top>>
    ELSE <<top>> \o OrderDescFrom(rows \ {top}, col, TopRow(rows \ {top}, col))

OrderDesc(rows, col) ==
    IF rows = {} THEN << >> ELSE OrderDescFrom(rows, col, TopRow(rows, col))

Reverse(sq) == [i \in 1..Len(sq) |-> sq[Len(sq) + 1 - i]]

\* ascending rowid
OrderById(rows) == Reverse(OrderDesc(rows, "id"))

Limit(s, n) == IF Len(s) <= n THEN s ELSE SubSeq(s, 1, n)

\* SELECT * FROM tn ORDER BY id DESC LIMIT 1: no row (null) or one
LatestRow(t, tn) == Limit(OrderDesc(t[tn], "id"), 1)

getUserRead(t) == LatestRow(t, "users")
getSupportPersonRead(t) == LatestRow(t, "support_persons")
getSobrietyDataRead(t) == LatestRow(t, "sobriety_data")

\* SELECT reason FROM user_reasons ORDER BY id, mapped to the reason strings
reasonsOf(rows) == [i \in 1..Len(rows) |-> rows[i].reason]

getUserReasonsRead(t) == reasonsOf(OrderById(t["user_reasons"]))

\* the journal ordered by the time of the last edit
getJournalEntriesReadMut(t) == OrderDesc(t["journal_entries"], "updated_at")

getJournalEntriesRead(t) == OrderDesc(t["journal_entries"], "timestamp")
getIntentionsRead(t) == OrderDesc(t["intentions"], "timestamp")

getCheckInHistoryRead(t) == Limit(OrderDesc(t["daily_check_ins"], "date"), CheckInHistoryLimit)

\* SELECT id, timestamp FROM sos_logs ORDER BY timestamp DESC LIMIT 50
idAndTimestampOf(rows) ==
    [i \in 1..Len(rows) |-> [id |-> rows[i].id, timestamp |-> rows[i].timestamp]]

getSOSLogsRead(t) ==
    idAndTimestampOf(Limit(OrderDesc(t["sos_logs"], "timestamp"), SOSLogLimit))

\* SELECT * FROM daily_check_ins WHERE date = today (date is UNIQUE: no or one row)
getTodayCheckInRead(t, time) ==
    OrderDesc({r \in t["daily_check_ins"] : r.date = DateOf(time)}, "id")

getEncouragementStatsRead(t) ==
    [total |-> Cardinality(t["encouragements"]),
     seen |-> Cardinality({e \in t["encouragements"] : e.seen = 1})]

----------------------------------------------------------------------------
(* Faults of one call: what the environment makes fail while it runs *)

\* open: SQLite.openDatabaseAsync rejects; stmt: the k-th store statement of the call's own
\* try block throws (0: none); kvWrite / kvRead: which attempts of AsyncStorage.setItem /
\* getItem reject; corrupt: the item read is a string JSON.parse rejects
AllOk == [i \in 1..maxRetries |-> FALSE]
AllFail == [i \in 1..maxRetries |-> TRUE]
FirstFails == [i \in 1..maxRetries |-> i = 1]

NoFault == [open |-> FALSE, stmt |-> 0, kvWrite |-> AllOk, kvRead |-> AllOk, corrupt |-> FALSE,
            read |-> "none"]

Faults == {NoFault,
           [NoFault EXCEPT !.open = TRUE],
           [NoFault EXCEPT !.stmt = 1],
           [NoFault EXCEPT !.stmt = 2],
           [NoFault EXCEPT !.kvWrite = AllFail],
           [NoFault EXCEPT !.kvWrite = FirstFails],
           [NoFault EXCEPT !.kvRead = AllFail],
           [NoFault EXCEPT !.kvRead = FirstFails]}

\* retryOperation: the attempt that succeeded, or the failure of the last one
RECURSIVE retryFrom(_, _, _)
retryFrom(fails, attempt, max) ==
    IF ~fails[attempt] THEN [ok |-> TRUE, attempts |-> attempt]
    ELSE IF attempt = max THEN [ok |-> FALSE, attempts |-> attempt]
    ELSE retryFrom(fails, attempt + 1, max)

retryOperation(fails, max) == retryFrom(fails, 1, max)

----------------------------------------------------------------------------
(* The world a call works on, and the snapshot *)

NoSnapshot == [present |-> FALSE, timestamp |-> 0, version |-> "1.0.0",
               user |-> << >>, supportPerson |-> << >>,
               sobrietyData |-> << >>, sobrietyDataIsArray |-> FALSE,
               userReasons |-> << >>, journalEntries |-> << >>, intentions |-> << >>,
               dailyCheckIns |-> << >>, sosLogs |-> << >>]

UserPart(t) == [tn \in UserTables |-> t[tn]]

\* (bk, rs: how the backup step and the restore step of the call ended: "none" when the
\* step did not run)
Cur == [db |-> db, tables |-> tables, seq |-> seq, snapshot |-> snapshot, backedUp |-> backedUp,
        bk |-> "none", rs |-> "none"]

\* the object backupData serializes, with the catalog added to it
backupObjectMut(t, time) ==
    [present |-> TRUE, timestamp |-> time, version |-> "1.0.0",
     user |-> getUserRead(t),
     supportPerson |-> getSupportPersonRead(t),
     sobrietyData |-> getSobrietyDataRead(t), sobrietyDataIsArray |-> FALSE,
     userReasons |-> getUserReasonsRead(t),
     journalEntries |-> << >>, intentions |-> << >>, dailyCheckIns |-> << >>,
     sosLogs |-> << >>, encouragements |-> OrderById(t["encouragements"])]

\* the object backupData serializes: user, supportPerson and sobrietyData are null or one
\* object (here: no or one element), the others arrays
backupObject(t, time) ==
    [present |-> TRUE, timestamp |-> time, version |-> "1.0.0",
     user |-> getUserRead(t),
     supportPerson |-> getSupportPersonRead(t),
     sobrietyData |-> getSobrietyDataRead(t), sobrietyDataIsArray |-> FALSE,
     userReasons |-> getUserReasonsRead(t),
     journalEntries |-> getJournalEntriesRead(t),
     intentions |-> getIntentionsRead(t),
     dailyCheckIns |-> getCheckInHistoryRead(t),
     sosLogs |-> getSOSLogsRead(t)]

\* a || b on a time column
OrElse(a, b) == IF a = NullTime THEN b ELSE a

\* what the restore binds for one element of backup.userReasons: the element is a string
\* (getUserReasons maps the rows to their reason), and .id, .reason and .created_at of a
\* string are undefined
reasonBound(e) == [id |-> NullId, reason |-> NullText, created_at |-> NullTime]

\* entry.updated_at || entry.created_at
entryBound(e) == [e EXCEPT !.updated_at = OrElse(e.updated_at, e.created_at)]

\* a row of backup.sosLogs has id and timestamp only: log.created_at is undefined
sosLogBound(e) == [id |-> e.id, timestamp |-> e.timestamp, created_at |-> NullTime]

\* the elements the sobrietyData loop visits: `backup.sobrietyData.length > 0` is false for
\* an object, whose length is undefined
sobrietyDataToReplay(snap) == IF snap.sobrietyDataIsArray THEN snap.sobrietyData ELSE << >>

RECURSIVE replayAll(_, _, _, _)
replayAll(st, tn, rows, i) ==
    IF i > Len(rows) \/ ~st.ok THEN st
    ELSE replayAll(InsertOrReplace(st, tn, rows[i]), tn, rows, i + 1)

\* the replay of restoreDataIfNeeded, statement by statement; the first statement that
\* throws ends it, and what was written before stays
restoreReplay(t, s, snap) ==
    LET s0 == St(t, s)
        s1 == replayAll(s0, "users", snap.user, 1)
        s2 == replayAll(s1, "support_persons", snap.supportPerson, 1)
        s3 == replayAll(s2, "sobriety_data", sobrietyDataToReplay(snap), 1)
        s4 == replayAll(s3, "user_reasons",
                        [i \in 1..Len(snap.userReasons) |-> reasonBound(snap.userReasons[i])], 1)
        s5 == replayAll(s4, "journal_entries",
                        [i \in 1..Len(snap.journalEntries) |-> entryBound(snap.journalEntries[i])], 1)
        s6 == replayAll(s5, "intentions",
                        [i \in 1..Len(snap.intentions) |-> entryBound(snap.intentions[i])], 1)
        s7 == replayAll(s6, "daily_check_ins", snap.dailyCheckIns, 1)
        s8 == replayAll(s7, "sos_logs",
                        [i \in 1..Len(snap.sosLogs) |-> sosLogBound(snap.sosLogs[i])], 1)
    IN s8

hasUserData(t) == Cardinality(t["users"]) > 0

\* the skip test without its support_persons and sobriety_data counts
hasAnyContentMut(t) ==
    \/ Cardinality(t["journal_entries"]) > 0
    \/ Cardinality(t["intentions"]) > 0
    \/ Cardinality(t["daily_check_ins"]) > 0

hasAnyContent(t) ==
    \/ Cardinality(t["journal_entries"]) > 0
    \/ Cardinality(t["intentions"]) > 0
    \/ Cardinality(t["daily_check_ins"]) > 0
    \/ Cardinality(t["support_persons"]) > 0
    \/ Cardinality(t["sobriety_data"]) > 0

\* the world after a try block that threw at some statement, or that has no backup step:
\* what its statements wrote stays
withoutBackup(w, st) == [w EXCEPT !.tables = st.tables, !.seq = st.seq]

\* restoreDataIfNeeded with the handle open: [w, threw, kvRead, replayed].  Every failure is
\* caught and logged; the call never throws.
restoreOpen(w, f) ==
    IF f.stmt = 1                                                \* a count query throws
    THEN [w |-> [w EXCEPT !.rs = "countFailed"],
          threw |-> FALSE, kvRead |-> FALSE, replayed |-> FALSE]
    ELSE IF hasUserData(w.tables) /\ hasAnyContent(w.tables)
    THEN [w |-> [w EXCEPT !.rs = "skipped"],
          threw |-> FALSE, kvRead |-> FALSE, replayed |-> FALSE]
    ELSE IF ~retryOperation(f.kvRead, maxRetries).ok
    THEN [w |-> [w EXCEPT !.rs = "readFailed"],
          threw |-> FALSE, kvRead |-> TRUE, replayed |-> FALSE]
    ELSE IF ~w.snapshot.present
    THEN [w |-> [w EXCEPT !.rs = "noBackup"],
          threw |-> FALSE, kvRead |-> TRUE, replayed |-> FALSE]
    ELSE IF f.corrupt                                            \* JSON.parse throws
    THEN [w |-> [w EXCEPT !.rs = "parseFailed"],
          threw |-> FALSE, kvRead |-> TRUE, replayed |-> FALSE]
    ELSE [w |-> [withoutBackup(w, restoreReplay(w.tables, w.seq, w.snapshot))
                     EXCEPT !.rs = "replayed"],
          threw |-> FALSE, kvRead |-> TRUE, replayed |-> TRUE]

\* the seed catalog: SeedSize messages, none seen
seedEncouragements(w) ==
    IF Cardinality(w.tables["encouragements"]) = 0
    THEN [w EXCEPT !.tables["encouragements"] = {[id |-> w.seq["encouragements"] + i, seen |-> 0] : i \in 1..SeedSize},
                   !.seq["encouragements"] = @ + SeedSize]
    ELSE w

\* a restore whose failure is not caught
rethrown(r) ==
    IF r.w.rs \in {"readFailed", "parseFailed"}
    THEN [r EXCEPT !.threw = TRUE, !.w.db = "null"]
    ELSE r

\* init() with the failures of its restore step reaching its own catch
initDbMut(w, f) ==
    IF f.open THEN [w |-> [w EXCEPT !.db = "null"], threw |-> TRUE, kvRead |-> FALSE, replayed |-> FALSE]
    ELSE rethrown(restoreOpen(seedEncouragements([w EXCEPT !.db = "open"]), [f EXCEPT !.stmt = 0]))

\* init(): [w, threw, kvRead, replayed].  The schema is the current one, so migrateDatabase
\* and createTables change no row.
initDb(w, f) ==
    IF f.open THEN [w |-> [w EXCEPT !.db = "null"], threw |-> TRUE, kvRead |-> FALSE, replayed |-> FALSE]
    ELSE restoreOpen(seedEncouragements([w EXCEPT !.db = "open"]), [f EXCEPT !.stmt = 0])

\* `if (!this.db) { await this.init() }` at the head of a call
lazyInit(w, f) ==
    IF w.db = "null" THEN initDb(w, f)
    ELSE [w |-> w, threw |-> FALSE, kvRead |-> FALSE, replayed |-> FALSE]

\* what the reads of backupData() return: the getter of table f.read catches the error
\* of its query and returns null or []
readBy(t, f) == IF f.read = "none" THEN t ELSE [t EXCEPT ![f.read] = {}]

\* backupData() called with the handle open: [w, threw].  The reads cannot throw; the
\* write is retried and its last failure is rethrown.
backupData(w, f, time) ==
    IF retryOperation(f.kvWrite, maxRetries).ok
    THEN [w |-> [w EXCEPT !.snapshot = backupObject(readBy(w.tables, f), time),
                          !.backedUp = UserPart(readBy(w.tables, f)), !.bk = "ok"],
          threw |-> FALSE]
    ELSE [w |-> [w EXCEPT !.bk = "failed"], threw |-> TRUE]

----------------------------------------------------------------------------
(* Calls.  Every action is one call of the service, from entry to return.
   `\E x \in {e} : ...` names the value e as x. *)

Quiet == [op |-> "none", out |-> "ok", ret |-> 0, rows |-> << >>, dbWasNull |-> FALSE,
          fault |-> FALSE, kvRead |-> FALSE, replayed |-> FALSE, alert |-> "none",
          hadToday |-> FALSE, during |-> FALSE, hadRow |-> FALSE, backup |-> "none",
          restore |-> "none"]

\* no retry loop and no init() in flight, the schema the current one
RetryIdle == [pc |-> "idle"]
NoInits == << >>
CurrentSchema == [journal_entries |-> TRUE, intentions |-> TRUE]

AsideIdle ==
    /\ retry = RetryIdle
    /\ inits = NoInits
    /\ schema = CurrentSchema

\* no singleton save is in flight
Idle == [pc |-> "idle", op |-> "none", tn |-> "none", fields |-> [id |-> NullId],
         hadRow |-> FALSE, id |-> 0]

Called(op) == [Quiet EXCEPT !.op = op, !.dbWasNull = (db = "null")]

Commit(w, l) ==
    /\ db' = w.db
    /\ tables' = w.tables
    /\ seq' = w.seq
    /\ snapshot' = w.snapshot
    /\ backedUp' = w.backedUp
    /\ last' = [l EXCEPT !.backup = w.bk, !.restore = w.rs]
    /\ UNCHANGED <<now, call, aside>>

\* the world after the call's store statements and its best-effort backup
\* (`try { await this.backupData() } catch { }`): a failed backup is swallowed
withBackup(w, st, f) == backupData(withoutBackup(w, st), f, now).w

\* a failed backup undoing the statements of the call
afterTryMut(w, st, f) ==
    IF ~st.ok THEN withoutBackup(w, st)
    ELSE IF backupData(withoutBackup(w, st), f, now).threw THEN [w EXCEPT !.bk = "failed"]
    ELSE withBackup(w, st, f)

\* the world a try block leaves: backed up when every statement ran
afterTry(w, st, f) == IF st.ok THEN withBackup(w, st, f) ELSE withoutBackup(w, st)

userFields(name) ==
    [id |-> NullId, name |-> name, has_completed_onboarding |-> 0, setup_step |-> 0,
     created_at |-> now, updated_at |-> now]

supportPersonFields(name, phone) ==
    [id |-> NullId, name |-> name, phone |-> phone, created_at |-> now, updated_at |-> now]

sobrietyFields(in) ==
    [id |-> NullId, tracking_sobriety |-> in.tracking, tracking_mode |-> in.mode,
     sober_date |-> in.date, created_at |-> now, updated_at |-> now]

reasonFields(reason) == [id |-> NullId, reason |-> reason, created_at |-> now]

SobrietyInputs == {[tracking |-> 1, mode |-> "sober", date |-> 0]}
OnboardingInputs == {[done |-> 1, step |-> 1]}
ReasonInputs == {<< >>, <<"a">>}

\* UPDATE users SET ... WHERE id = (SELECT id FROM users ORDER BY id DESC LIMIT 1)
\* (`set`: the columns assigned, with their values)
updateLatestUser(st, set) ==
    IF ~st.ok THEN st
    ELSE [st EXCEPT !.tables["users"] =
              {IF u.id = MaxRowId(@)
               THEN [c \in DOMAIN u |-> IF c \in DOMAIN set THEN set[c] ELSE u[c]]
               ELSE u : u \in @}]

\* init(), called by the root layout at startup
init(f) ==
    \E r \in {initDb(Cur, f)} :
       Commit(r.w, [Called("init") EXCEPT !.out = IF r.threw THEN "throw" ELSE "ok",
                                          !.fault = r.threw, !.kvRead = r.kvRead,
                                          !.replayed = r.replayed])

createUser(name, f) ==
    /\ Inserted(seq) < MaxRows
    /\ IF db = "null"
       THEN Commit(Cur, [Called("createUser") EXCEPT !.out = "throw"])
       ELSE \E st \in {Insert(FailIf(St(tables, seq), f.stmt = 1), "users", userFields(name))} :
               Commit(withoutBackup(Cur, st),
                      [Called("createUser") EXCEPT !.out = IF st.ok THEN "ok" ELSE "throw",
                                                   !.ret = st.id, !.fault = ~st.ok])

updateUserName(name, f) ==
    IF db = "null"
    THEN Commit(Cur, [Called("updateUserName") EXCEPT !.out = "throw"])
    ELSE \E st \in {updateLatestUser(FailIf(St(tables, seq), f.stmt = 1),
                                    [name |-> name, updated_at |-> now])} :
            Commit(afterTry(Cur, st, f),
                   [Called("updateUserName") EXCEPT !.out = IF st.ok THEN "ok" ELSE "throw",
                                                    !.fault = ~st.ok])

updateUserOnboarding(in, f) ==
    IF db = "null"
    THEN Commit(Cur, [Called("updateUserOnboarding") EXCEPT !.out = "throw"])
    ELSE \E st \in {updateLatestUser(FailIf(St(tables, seq), f.stmt = 1),
                                    [has_completed_onboarding |-> in.done,
                                     setup_step |-> in.step, updated_at |-> now])} :
            Commit(afterTry(Cur, st, f),
                   [Called("updateUserOnboarding") EXCEPT !.out = IF st.ok THEN "ok" ELSE "throw",
                                                          !.fault = ~st.ok])

\* the INSERT without the DELETE before it
replaceSingletonMut(w, tn, fields, f) ==
    Insert(FailIf(FailIf(St(w.tables, w.seq), f.stmt = 1), f.stmt = 2), tn, fields)

\* DELETE FROM tn, then INSERT: two statements, no transaction
replaceSingleton(w, tn, fields, f) ==
    Insert(FailIf(DeleteAll(FailIf(St(w.tables, w.seq), f.stmt = 1), tn), f.stmt = 2), tn, fields)

saveSupportPerson(name, phone, f) ==
    /\ Inserted(seq) < MaxRows
    /\ \E i \in {lazyInit(Cur, f)} :
          IF i.threw
          THEN Commit(i.w, [Called("saveSupportPerson") EXCEPT !.out = "throw", !.fault = TRUE])
          ELSE \E st \in {replaceSingleton(i.w, "support_persons", supportPersonFields(name, phone), f)} :
                  Commit(afterTry(i.w, st, f),
                         [Called("saveSupportPerson") EXCEPT
                              !.out = IF st.ok THEN "ok" ELSE "throw",
                              !.ret = st.id, !.fault = ~st.ok,
                              !.kvRead = i.kvRead, !.replayed = i.replayed])

saveSobrietyData(in, f) ==
    /\ Inserted(seq) < MaxRows
    /\ IF db = "null"
       THEN Commit(Cur, [Called("saveSobrietyData") EXCEPT !.out = "throw"])
       ELSE \E st \in {replaceSingleton(Cur, "sobriety_data", sobrietyFields(in), f)} :
               Commit(afterTry(Cur, st, f),
                      [Called("saveSobrietyData") EXCEPT
                           !.out = IF st.ok THEN "ok" ELSE "throw",
                           !.ret = st.id, !.fault = ~st.ok])

RECURSIVE insertReasons(_, _, _)
insertReasons(st, reasons, i) ==
    IF i > Len(reasons) THEN st
    ELSE insertReasons(Insert(st, "user_reasons", reasonFields(reasons[i])), reasons, i + 1)

saveUserReasons(reasons, f) ==
    /\ Inserted(seq) + Len(reasons) <= MaxRows
    /\ IF db = "null"
       THEN Commit(Cur, [Called("saveUserReasons") EXCEPT !.out = "throw"])
       ELSE \E st \in {insertReasons(FailIf(DeleteAll(FailIf(St(tables, seq), f.stmt = 1),
                                                     "user_reasons"), f.stmt = 2), reasons, 1)} :
               Commit(afterTry(Cur, st, f),
                      [Called("saveUserReasons") EXCEPT
                           !.out = IF st.ok THEN "ok" ELSE "throw", !.fault = ~st.ok])

\* a read of a table's latest row that initializes lazily and turns every failure into null
\* (during, hadRow: whether a save of the table read was in flight, and whether the table
\* held a row when that save began)
lazyRead(op, tn, f) ==
    \E i \in {lazyInit(Cur, f)} :
       Commit(i.w, [Called(op) EXCEPT
                        !.rows = IF i.threw \/ f.stmt = 1 THEN << >> ELSE LatestRow(i.w.tables, tn),
                        !.fault = i.threw \/ f.stmt = 1,
                        !.kvRead = i.kvRead, !.replayed = i.replayed,
                        !.during = (call.pc # "idle" /\ call.tn = tn),
                        !.hadRow = (call.pc # "idle" /\ call.tn = tn /\ call.hadRow)])

getUser(f) == lazyRead("getUser", "users", f)
getSupportPerson(f) == lazyRead("getSupportPerson", "support_persons", f)
getSobrietyData(f) == lazyRead("getSobrietyData", "sobriety_data", f)

\* `if (!this.db) throw new Error('Database not initialized')`
getUserReasons(f) ==
    IF db = "null"
    THEN Commit(Cur, [Called("getUserReasons") EXCEPT !.out = "throw"])
    ELSE Commit(Cur, [Called("getUserReasons") EXCEPT
                          !.rows = IF f.stmt = 1 THEN << >> ELSE getUserReasonsRead(tables),
                          !.fault = (f.stmt = 1)])

getEncouragementStats(f) ==
    IF db = "null"
    THEN Commit(Cur, [Called("getEncouragementStats") EXCEPT !.out = "throw"])
    ELSE Commit(Cur, [Called("getEncouragementStats") EXCEPT
                          !.ret = IF f.stmt = 1 THEN 0 ELSE getEncouragementStatsRead(tables).total,
                          !.fault = (f.stmt = 1)])

\* the DELETEs of clearUserData / clearAllData in statement order, then
\* UPDATE encouragements SET seen = 0; f.stmt = k makes the k-th statement throw
ClearOrder == <<"users", "support_persons", "sobriety_data", "user_reasons", "sos_logs",
                "journal_entries", "intentions", "daily_check_ins">>

RECURSIVE deleteFrom(_, _, _)
deleteFrom(st, i, failAt) ==
    IF i > Len(ClearOrder) THEN st
    ELSE deleteFrom(DeleteAll(FailIf(st, failAt = i), ClearOrder[i]), i + 1, failAt)

resetSeen(st) ==
    IF ~st.ok THEN st
    ELSE [st EXCEPT !.tables["encouragements"] = {[e EXCEPT !.seen = 0] : e \in @}]

clearData(op, f) ==
    \E i \in {lazyInit(Cur, f)} :
       IF i.threw
       THEN Commit(i.w, [Called(op) EXCEPT !.fault = TRUE])
       ELSE \E st \in {resetSeen(deleteFrom(St(i.w.tables, i.w.seq), 1, f.stmt))} :
               Commit(afterTry(i.w, st, f),
                      [Called(op) EXCEPT !.out = IF st.ok THEN "ok" ELSE "throw",
                                         !.fault = ~st.ok,
                                         !.kvRead = i.kvRead, !.replayed = i.replayed])

clearUserData(f) == clearData("clearUserData", f)
clearAllData(f) == clearData("clearAllData", f)

\* manualBackup(): backupData() and its errors
manualBackup(f) ==
    \E i \in {lazyInit(Cur, f)} :
       IF i.threw
       THEN Commit(i.w, [Called("backupData") EXCEPT !.fault = TRUE])
       ELSE \E b \in {backupData(i.w, f, now)} :
               Commit(b.w, [Called("backupData") EXCEPT
                                !.out = IF b.threw THEN "throw" ELSE "ok",
                                !.kvRead = i.kvRead, !.replayed = i.replayed])

\* manualRestore(): restoreDataIfNeeded()
manualRestore(f) ==
    \E i \in {lazyInit(Cur, f)} :
       IF i.threw
       THEN Commit(i.w, [Called("restoreDataIfNeeded") EXCEPT !.fault = TRUE])
       ELSE \E r \in {restoreOpen(i.w, f)} :
               Commit(r.w, [Called("restoreDataIfNeeded") EXCEPT
                                !.fault = (f.stmt = 1),
                                !.kvRead = i.kvRead \/ r.kvRead,
                                !.replayed = i.replayed \/ r.replayed])

resetDatabase(f) ==
    \E r \in {initDb([Cur EXCEPT !.db = "null"], f)} :
       Commit(r.w, [Called("resetDatabase") EXCEPT !.out = IF r.threw THEN "throw" ELSE "ok",
                                                   !.fault = r.threw, !.kvRead = r.kvRead,
                                                   !.replayed = r.replayed])

----------------------------------------------------------------------------
(* The profile calls, one after the other, from a fresh install *)

Init ==
    /\ db = "null"
    /\ tables = EmptyTables
    /\ seq = ZeroSeq
    /\ snapshot = NoSnapshot
    /\ now = 0
    /\ last = Quiet
    /\ call = Idle
    /\ AsideIdle
    /\ backedUp = UserPart(EmptyTables)

Next ==
    \E f \in Faults :
        \/ init(f)
        \/ \E n \in Names : createUser(n, f)
        \/ \E n \in NewNames : updateUserName(n, f)
        \/ \E in \in OnboardingInputs : updateUserOnboarding(in, f)
        \/ \E n \in Names : saveSupportPerson(n, "p", f)
        \/ \E in \in SobrietyInputs : saveSobrietyData(in, f)
        \/ clearUserData(f)
        \/ clearAllData(f)
        \/ manualRestore(f)
        \/ resetDatabase(f)

Spec == Init /\ [][Next]_vars

\* C2: in every reachable state each of users, support_persons and sobriety_data holds
\* at most one row.
C2_SingletonTables ==
    /\ Cardinality(tables["users"]) <= 1
    /\ Cardinality(tables["support_persons"]) <= 1
    /\ Cardinality(tables["sobriety_data"]) <= 1

\* C9: a restoreDataIfNeeded that finds a User row and a row in one of journal_entries,
\* intentions, daily_check_ins, support_persons, sobriety_data changes no table and does
\* not read the snapshot.
C9_RestoreSkipped ==
    [][(/\ last'.op = "restoreDataIfNeeded"
        /\ tables["users"] # {}
        /\ \E tn \in {"journal_entries", "intentions", "daily_check_ins",
                       "support_persons", "sobriety_data"} : tables[tn] # {})
       => (tables' = tables /\ ~last'.kvRead)]_vars

\* C9 witness: a restore was skipped although the snapshot differs from the store, so a
\* replay would have overwritten the user row.
C9_Witness ==
    /\ last.op = "restoreDataIfNeeded"
    /\ ~last.kvRead /\ ~last.fault
    /\ hasUserData(tables) /\ Cardinality(tables["support_persons"]) > 0
    /\ snapshot.present
    /\ snapshot.user # getUserRead(tables)

(* The reads, called before or after init() *)

NextReads ==
    \E f \in Faults :
        \/ init(f)
        \/ \E n \in Names : createUser(n, f)
        \/ \E rs \in ReasonInputs : saveUserReasons(rs, f)
        \/ getUser(f)
        \/ getSupportPerson(f)
        \/ getSobrietyData(f)
        \/ getUserReasons(f)
        \/ getEncouragementStats(f)
        \/ manualBackup(f)

SpecReads == Init /\ [][NextReads]_vars

ReadOps == {"getUser", "getSupportPerson", "getSobrietyData", "getUserReasons",
            "getEncouragementStats"}

\* C6: a read called while the handle is not open initializes lazily and proceeds: it
\* does not throw because init() was not called first.
C6_LazyReadNeverThrows ==
    (last.op \in ReadOps /\ last.dbWasNull) => last.out # "throw"

----------------------------------------------------------------------------
(* The content calls: journal, intentions, daily check-ins, SOS log *)

entryFields(content) ==
    [id |-> NullId, content |-> content, timestamp |-> now, created_at |-> now,
     updated_at |-> now]

checkInFields(in) ==
    [id |-> NullId, goal |-> in.goal, energy |-> in.energy, tone |-> in.tone,
     thankful |-> in.thankful, date |-> DateOf(now), created_at |-> now]

sosLogFields(timestamp) == [id |-> NullId, timestamp |-> timestamp, created_at |-> now]

CheckInInputs == {[goal |-> "g", energy |-> "low", tone |-> "calm", thankful |-> "t"]}

\* a create that initializes lazily and returns the new rowid, or 0 when the
\* initialization or the insert failed: [w, ret, fault, kvRead, replayed]
\* the create with its backup in the same try as the insert: a failed backup reaches the
\* catch that returns 0
insertedMut(i, st, f) ==
    [w |-> afterTry(i.w, st, f),
     ret |-> IF afterTry(i.w, st, f).bk = "failed" THEN 0 ELSE st.id,
     fault |-> (f.stmt = 1), kvRead |-> i.kvRead, replayed |-> i.replayed]

inserted(i, st, f) ==
    [w |-> afterTry(i.w, st, f), ret |-> st.id, fault |-> (f.stmt = 1),
     kvRead |-> i.kvRead, replayed |-> i.replayed]

insertOrZero(i, tn, fields, f) ==
    IF i.threw
    THEN [w |-> i.w, ret |-> 0, fault |-> TRUE, kvRead |-> FALSE, replayed |-> FALSE]
    ELSE inserted(i, Insert(FailIf(St(i.w.tables, i.w.seq), f.stmt = 1), tn, fields), f)

createOrZero(w, tn, fields, f) == insertOrZero(lazyInit(w, f), tn, fields, f)

createRecorded(op, r) ==
    Commit(r.w, [Called(op) EXCEPT !.ret = r.ret, !.fault = r.fault,
                                   !.kvRead = r.kvRead, !.replayed = r.replayed])

createJournalEntry(content, f) ==
    /\ Inserted(seq) < MaxRows
    /\ createRecorded("createJournalEntry",
                      createOrZero(Cur, "journal_entries", entryFields(content), f))

createIntention(content, f) ==
    /\ Inserted(seq) < MaxRows
    /\ createRecorded("createIntention",
                      createOrZero(Cur, "intentions", entryFields(content), f))

logSOSActivation(timestamp, f) ==
    /\ Inserted(seq) < MaxRows
    /\ createRecorded("logSOSActivation",
                      createOrZero(Cur, "sos_logs", sosLogFields(timestamp), f))

createDailyCheckIn(w, in, f) == createOrZero(w, "daily_check_ins", checkInFields(in), f)

\* the check-in screen's save: createDailyCheckIn does not throw, so the screen
\* reports success whatever it returned
handleSaveCheckIn(in, f) ==
    /\ Inserted(seq) < MaxRows
    /\ \E r \in {createDailyCheckIn(Cur, in, f)} :
          Commit(r.w, [Called("handleSaveCheckIn") EXCEPT
                           !.ret = r.ret, !.fault = r.fault, !.alert = "Success",
                           !.hadToday = (getTodayCheckInRead(tables, now) # << >>),
                           !.kvRead = r.kvRead, !.replayed = r.replayed])

deleteJournalEntry(id, f) ==
    \E i \in {lazyInit(Cur, f)} :
       IF i.threw
       THEN Commit(i.w, [Called("deleteJournalEntry") EXCEPT !.out = "throw", !.fault = TRUE])
       ELSE \E st \in {DeleteById(FailIf(St(i.w.tables, i.w.seq), f.stmt = 1), "journal_entries", id)} :
               Commit(afterTry(i.w, st, f),
                      [Called("deleteJournalEntry") EXCEPT
                           !.out = IF st.ok THEN "ok" ELSE "throw", !.fault = ~st.ok,
                           !.ret = id,
                           !.kvRead = i.kvRead, !.replayed = i.replayed])

\* clearTodayCheckIn(): returns quietly when the handle is not open, and logs its errors
clearTodayCheckIn(f) ==
    IF db = "null"
    THEN Commit(Cur, Called("clearTodayCheckIn"))
    ELSE \E st \in {DeleteByDate(FailIf(St(tables, seq), f.stmt = 1), DateOf(now))} :
            Commit(afterTry(Cur, st, f),
                   [Called("clearTodayCheckIn") EXCEPT !.fault = ~st.ok])

\* time passes
Tick ==
    /\ now < MaxNow
    /\ now' = now + 1
    /\ last' = [Quiet EXCEPT !.op = "tick"]
    /\ UNCHANGED <<db, tables, seq, snapshot, call, backedUp, aside>>

(* The daily check-in over the days *)

NextCheckIn ==
    \/ Tick
    \/ \E f \in Faults :
        \/ init(f)
        \/ \E in \in CheckInInputs : handleSaveCheckIn(in, f)
        \/ clearTodayCheckIn(f)
        \/ clearUserData(f)
        \/ manualRestore(f)

SpecCheckIn == Init /\ [][NextCheckIn]_vars

(* The writes on user content, and what their callers are told *)

NextWrites ==
    \E f \in Faults :
        \/ init(f)
        \/ createJournalEntry("c", f)
        \/ createIntention("c", f)
        \/ logSOSActivation(now, f)
        \/ \E in \in CheckInInputs : handleSaveCheckIn(in, f)
        \/ \E id \in 1..MaxRows : deleteJournalEntry(id, f)
        \/ \E n \in Names : saveSupportPerson(n, "p", f)

SpecWrites == Init /\ [][NextWrites]_vars

\* C3: daily_check_ins never holds two rows of one calendar date, and when a
\* createDailyCheckIn has run with no failure of the store, exactly one row of today's
\* date exists.
C3_OneCheckInPerDate ==
    /\ \A r1, r2 \in tables["daily_check_ins"] : r1.date = r2.date => r1 = r2
    /\ (last.op = "handleSaveCheckIn" /\ ~last.fault)
          => Cardinality({r \in tables["daily_check_ins"] : r.date = DateOf(now)}) = 1

\* C3 witness: a second create on a date that already had its row.
C3_Witness ==
    /\ last.op = "handleSaveCheckIn" /\ last.hadToday /\ ~last.fault
    /\ Cardinality(tables["daily_check_ins"]) = 1

ContentWrites == {"createJournalEntry", "createIntention", "handleSaveCheckIn",
                  "deleteJournalEntry", "saveSupportPerson"}

\* C5: a write on user content whose store statement or initialization failed throws
\* to its caller (logSOSActivation alone may return a sentinel).
C5_WriteFailureThrows ==
    (last.op \in ContentWrites /\ last.fault) => last.out = "throw"

\* C7: a createDailyCheckIn on a date that already has its row is told apart from a
\* successful create by its caller, and the existing row stays.
C7_DuplicateRecognized ==
    (last.op = "handleSaveCheckIn" /\ last.hadToday) => last.alert # "Success"

----------------------------------------------------------------------------
(* Overlapping calls: a singleton save runs statement by statement (each await is a
   point where another call's statement may run), while reads come in between *)

\* entry of saveSupportPerson / saveSobrietyData, up to the first statement
saveStart(op, tn, fields, f) ==
    /\ call.pc = "idle"
    /\ Inserted(seq) < MaxRows
    /\ \E i \in {IF op = "saveSupportPerson" THEN lazyInit(Cur, f)
                ELSE [w |-> Cur, threw |-> (db = "null"), kvRead |-> FALSE, replayed |-> FALSE]} :
          /\ db' = i.w.db
          /\ tables' = i.w.tables
          /\ seq' = i.w.seq
          /\ IF i.threw
             THEN /\ call' = Idle
                  /\ last' = [Called(op) EXCEPT !.out = "throw", !.fault = (op = "saveSupportPerson")]
             ELSE /\ call' = [pc |-> "delete", op |-> op, tn |-> tn, fields |-> fields,
                              hadRow |-> (i.w.tables[tn] # {}), id |-> 0]
                  /\ last' = last
          /\ UNCHANGED <<snapshot, now, backedUp, aside>>

\* await this.db.runAsync('DELETE FROM ...')
saveDelete(f) ==
    /\ call.pc = "delete"
    /\ \E st \in {DeleteAll(FailIf(St(tables, seq), f.stmt = 1), call.tn)} :
          /\ tables' = st.tables
          /\ call' = IF st.ok THEN [call EXCEPT !.pc = "insert"] ELSE Idle
          /\ last' = IF st.ok THEN last
                     ELSE [Called(call.op) EXCEPT !.out = "throw", !.fault = TRUE]
    /\ UNCHANGED <<db, seq, snapshot, now, backedUp, aside>>

\* await this.db.runAsync('INSERT INTO ...')
saveInsert(f) ==
    /\ call.pc = "insert"
    /\ \E st \in {Insert(FailIf(St(tables, seq), f.stmt = 1), call.tn, call.fields)} :
          /\ tables' = st.tables
          /\ seq' = st.seq
          /\ call' = IF st.ok THEN [call EXCEPT !.pc = "backup", !.id = st.id] ELSE Idle
          /\ last' = IF st.ok THEN last
                     ELSE [Called(call.op) EXCEPT !.out = "throw", !.fault = TRUE]
    /\ UNCHANGED <<db, snapshot, now, backedUp, aside>>

\* the best-effort backup, and the return of the new rowid
saveReturn(f) ==
    /\ call.pc = "backup"
    /\ \E b \in {backupData(Cur, f, now)} :
          /\ snapshot' = b.w.snapshot
          /\ backedUp' = b.w.backedUp
          /\ last' = [Called(call.op) EXCEPT !.ret = call.id, !.backup = b.w.bk]
    /\ call' = Idle
    /\ UNCHANGED <<db, tables, seq, now, aside>>

NextConc ==
    \E f \in Faults :
        \/ init(f)
        \/ \E n \in Names :
              saveStart("saveSupportPerson", "support_persons", supportPersonFields(n, "p"), f)
        \/ \E in \in SobrietyInputs :
              saveStart("saveSobrietyData", "sobriety_data", sobrietyFields(in), f)
        \/ saveDelete(f)
        \/ saveInsert(f)
        \/ saveReturn(f)
        \/ getSupportPerson(f)
        \/ getSobrietyData(f)

SpecConc == Init /\ [][NextConc]_vars

\* C4: a getSupportPerson (getSobrietyData) that runs while a save of that table is in
\* flight, the table having held a row when the save began, does not return null.
C4_ReaderNeverSeesEmpty ==
    (last.op \in {"getSupportPerson", "getSobrietyData"}
     /\ last.during /\ last.hadRow /\ ~last.fault)
        => last.rows # << >>

----------------------------------------------------------------------------
(* Stores and snapshots drawn as inputs: the rows the calls above write, with the
   name or content `tag`; check-in `id` is of date id - 1 + shift, one a day *)

storeOf(tag, u, sp, sd, r, sl, j, in, c, shift) ==
    [users |-> {[id |-> i, name |-> tag, has_completed_onboarding |-> 1, setup_step |-> 1,
                 created_at |-> 0, updated_at |-> 0] : i \in u},
     support_persons |-> {[id |-> i, name |-> tag, phone |-> "p", created_at |-> 0,
                           updated_at |-> 0] : i \in sp},
     sobriety_data |-> {[id |-> i, tracking_sobriety |-> 1, tracking_mode |-> "sober",
                         sober_date |-> 0, created_at |-> 0, updated_at |-> 0] : i \in sd},
     user_reasons |-> {[id |-> i, reason |-> tag, created_at |-> 0] : i \in r},
     sos_logs |-> {[id |-> i, timestamp |-> i - 1, created_at |-> i - 1] : i \in sl},
     journal_entries |-> {[id |-> i, content |-> tag, timestamp |-> i - 1, created_at |-> i - 1,
                           updated_at |-> i - 1] : i \in j},
     intentions |-> {[id |-> i, content |-> tag, timestamp |-> i - 1, created_at |-> i - 1,
                      updated_at |-> i - 1] : i \in in},
     daily_check_ins |-> {[id |-> i, goal |-> tag, energy |-> "low", tone |-> "calm",
                           thankful |-> "t", date |-> i - 1 + shift,
                           created_at |-> (i - 1 + shift) * TicksPerDay] : i \in c},
     encouragements |-> {[id |-> i, seen |-> 0] : i \in 1..SeedSize}]

seqOf(t) == [tn \in TableNames |-> MaxRowId(t[tn])]

NoneOrOne == {{}, {1}}

\* a store with a long history of check-ins and SOS activations
HistoryStores ==
    {storeOf("a", u, u, sd, r, 1..nl, j, j, 1..nc, 0) :
        u \in NoneOrOne, sd \in NoneOrOne, r \in NoneOrOne, j \in NoneOrOne,
        nl \in {0, 1, MaxSosLogs}, nc \in {0, 1, MaxCheckIns}}

InitHistory ==
    /\ db = "open"
    /\ tables \in HistoryStores
    /\ seq = seqOf(tables)
    /\ snapshot = NoSnapshot
    /\ now = TicksPerDay * Max(MaxCheckIns, MaxSosLogs)
    /\ last = Quiet
    /\ call = Idle
    /\ AsideIdle
    /\ backedUp = UserPart(EmptyTables)

\* the store works; the key-value write may fail
RoundTripFaults == {NoFault, [NoFault EXCEPT !.kvWrite = AllFail],
                    [NoFault EXCEPT !.kvWrite = FirstFails]}

NextRoundTrip ==
    \E f \in RoundTripFaults :
        \/ manualBackup(f)
        \/ clearUserData(f)
        \/ manualRestore(f)

SpecRoundTrip == InitHistory /\ [][NextRoundTrip]_vars

WithinReadLimits(t) ==
    /\ Cardinality(t["daily_check_ins"]) <= CheckInHistoryLimit
    /\ Cardinality(t["sos_logs"]) <= SOSLogLimit

\* the rows by id and content (of an SOS activation: its id and timestamp)
IdAndContent(p) ==
    [p EXCEPT !["sos_logs"] = {[id |-> x.id, timestamp |-> x.timestamp] : x \in @}]

\* C1: a restore that replays, into an empty store, the snapshot written by the last
\* backup (of a store within the read limits) leaves every row of the user tables as it
\* was at that backup, by id and content.
C1_RoundTrip ==
    [][(last'.op = "restoreDataIfNeeded" /\ last'.replayed
        /\ UserPart(tables) = UserPart(EmptyTables)
        /\ WithinReadLimits(backedUp))
       => IdAndContent(UserPart(tables')) = IdAndContent(backedUp)]_vars

InSeq(x, sq) == \E i \in 1..Len(sq) : sq[i] = x

\* C10: the snapshot a backup has written holds every row of the user tables (the
\* current user; a reason by its text; an SOS activation by its id and timestamp).
C10_SnapshotComplete ==
    (last.op = "backupData" /\ last.out = "ok" /\ ~last.fault) =>
        /\ snapshot.present
        /\ snapshot.user = getUserRead(tables)
        /\ \A x \in tables["support_persons"] : InSeq(x, snapshot.supportPerson)
        /\ \A x \in tables["sobriety_data"] : InSeq(x, snapshot.sobrietyData)
        /\ \A x \in tables["user_reasons"] : InSeq(x.reason, snapshot.userReasons)
        /\ \A x \in tables["journal_entries"] : InSeq(x, snapshot.journalEntries)
        /\ \A x \in tables["intentions"] : InSeq(x, snapshot.intentions)
        /\ \A x \in tables["daily_check_ins"] : InSeq(x, snapshot.dailyCheckIns)
        /\ \A x \in tables["sos_logs"] :
              InSeq([id |-> x.id, timestamp |-> x.timestamp], snapshot.sosLogs)

(* Restore, for the stores and snapshots it may meet *)

\* stores the restore may find: nothing, or rows whose ids or dates may collide with
\* the snapshot's
FoundStores ==
    {storeOf("b", u, sp, {}, {}, {}, j, {}, c, shift) :
        u \in NoneOrOne, sp \in {{}, {1}, {2}}, j \in NoneOrOne,
        c \in {{}, {1}, {2}}, shift \in {-1, 0}}

\* the snapshots backupData writes
WrittenSnapshots ==
    {NoSnapshot} \cup
    {backupObject(storeOf("a", u, sp, sd, r, sl, j, sl, c, 0), 0) :
        u \in NoneOrOne, sp \in NoneOrOne, sd \in NoneOrOne, r \in NoneOrOne,
        sl \in NoneOrOne, j \in {{}, {1, 2}}, c \in {{}, {1, 2}}}

InitRestore ==
    /\ db = "open"
    /\ tables \in FoundStores
    /\ seq = seqOf(tables)
    /\ snapshot \in WrittenSnapshots
    /\ now = TicksPerDay * 2
    /\ last = Quiet
    /\ call = Idle
    /\ AsideIdle
    /\ backedUp = UserPart(EmptyTables)

NextRestore ==
    \E f \in Faults :
        \/ manualRestore(f)
        \/ init(f)

SpecRestore == InitRestore /\ [][NextRestore]_vars

\* C8: once a restore has replayed the snapshot, replaying it again changes nothing:
\* the same rows, by id and content, and none twice.
C8_RestoreIdempotent ==
    (last.replayed /\ ~last.fault) =>
        /\ restoreReplay(tables, seq, snapshot).tables = tables
        /\ restoreOpen(Cur, NoFault).w.tables = tables

\* C8 witness: a replay that replaced a row of the store by the snapshot's row of the
\* same date and another id.
C8_Witness ==
    /\ last.op = "restoreDataIfNeeded" /\ last.replayed /\ ~last.fault
    /\ Cardinality(tables["daily_check_ins"]) = 2
    /\ Cardinality(tables["support_persons"]) = 2
    /\ \E x \in tables["journal_entries"] : x.id = 1 /\ x.content = "a"

----------------------------------------------------------------------------
(* The best-effort backup of a write *)

\* the table a create writes
CreatedIn == [createJournalEntry |-> "journal_entries", createIntention |-> "intentions",
              logSOSActivation |-> "sos_logs", handleSaveCheckIn |-> "daily_check_ins",
              saveSupportPerson |-> "support_persons"]

\* C11: a write whose statements succeeded and whose backup failed on every attempt
\* returns its normal result, and what it wrote stays: the row a create returned is in
\* its table, the journal entry a delete named is gone.
C11_BackupFailureSwallowed ==
    (last.backup = "failed" /\ last.op \in ContentWrites \cup {"logSOSActivation"}) =>
        /\ last.out = "ok"
        /\ ~last.fault
        /\ last.op \in DOMAIN CreatedIn =>
              /\ last.ret > 0
              /\ \E r \in tables[CreatedIn[last.op]] : r.id = last.ret
        /\ last.op = "deleteJournalEntry" =>
              ~\E r \in tables["journal_entries"] : r.id = last.ret

\* C11 witness: a support person saved while the key-value write failed: the row is in
\* the store and not in the snapshot.
C11_Witness ==
    /\ last.op = "saveSupportPerson" /\ last.backup = "failed" /\ last.out = "ok"
    /\ tables["support_persons"] # {}
    /\ snapshot.supportPerson # getSupportPersonRead(tables)

ProfileWrites == {"createUser", "updateUserName", "updateUserOnboarding", "saveSupportPerson",
                  "saveSobrietyData", "clearUserData", "clearAllData"}

\* C12: a write on user content that succeeded has triggered a backup, taken after its
\* statements: when that backup was written, the snapshot is the store as the write
\* left it.
C12_WriteTriggersBackup ==
    (last.op \in ProfileWrites /\ last.out = "ok" /\ ~last.fault) =>
        /\ last.backup # "none"
        /\ last.backup = "ok" =>
              /\ backedUp = UserPart(tables)
              /\ snapshot = backupObject(tables, snapshot.timestamp)

----------------------------------------------------------------------------
(* retryOperation, attempt by attempt.  retry.fails[k]: the k-th invocation of the
   operation rejects (with error k); retry.waited: the delays slept, in order *)

\* a constant delay in the place of delayMs * attempt
retryDelayMut(delayMs, attempt) == delayMs

\* setTimeout(resolve, delayMs * attempt)
retryDelay(delayMs, attempt) == delayMs * attempt

RetryDone == {"returned", "threw"}

\* the callers' arguments: (3, 500); the defaults: (3, 1000)
RetryStarts ==
    {[pc |-> "attempt", fails |-> fs, max |-> m, delayMs |-> d, attempt |-> 1, calls |-> 0,
      waited |-> << >>, result |-> 0, error |-> 0] :
        fs \in [1..MaxAttempts -> BOOLEAN], m \in 1..MaxAttempts, d \in DelaysMs}

InitRetry ==
    /\ db = "null"
    /\ tables = EmptyTables
    /\ seq = ZeroSeq
    /\ snapshot = NoSnapshot
    /\ now = 0
    /\ last = Quiet
    /\ call = Idle
    /\ backedUp = UserPart(EmptyTables)
    /\ retry \in RetryStarts
    /\ inits = NoInits
    /\ schema = CurrentSchema

\* `return await operation()` and its catch
retryInvoke ==
    /\ retry.pc = "attempt"
    /\ retry.attempt <= retry.max
    /\ retry' = IF ~retry.fails[retry.attempt]
                THEN [retry EXCEPT !.calls = @ + 1, !.pc = "returned", !.result = retry.attempt]
                ELSE IF retry.attempt = retry.max
                THEN [retry EXCEPT !.calls = @ + 1, !.pc = "threw", !.error = retry.attempt]
                ELSE [retry EXCEPT !.calls = @ + 1, !.pc = "wait"]
    /\ UNCHANGED <<db, tables, seq, snapshot, now, last, call, backedUp, inits, schema>>

\* the sleep before the next attempt
retryWait ==
    /\ retry.pc = "wait"
    /\ retry' = [retry EXCEPT !.waited = Append(@, retryDelay(retry.delayMs, retry.attempt)),
                              !.attempt = @ + 1, !.pc = "attempt"]
    /\ UNCHANGED <<db, tables, seq, snapshot, now, last, call, backedUp, inits, schema>>

NextRetry ==
    \/ retryInvoke
    \/ retryWait

\* a pending attempt or sleep does run
SpecRetry == InitRetry /\ [][NextRetry]_vars /\ WF_vars(NextRetry)

RetrySafe ==
    /\ retry.calls <= retry.max
    /\ Len(retry.waited) <= retry.calls
    /\ \A k \in 1..Len(retry.waited) :
          retry.waited[k] = retry.delayMs * k /\ retry.fails[k]
    /\ retry.pc = "returned" =>
          /\ ~retry.fails[retry.result] /\ \A k \in 1..(retry.result - 1) : retry.fails[k]
          /\ retry.calls = retry.result
          /\ Len(retry.waited) = retry.calls - 1
          /\ retryOperation(retry.fails, retry.max) = [ok |-> TRUE, attempts |-> retry.calls]
    /\ retry.pc = "threw" =>
          /\ \A k \in 1..retry.max : retry.fails[k]
          /\ retry.calls = retry.max /\ retry.error = retry.max
          /\ Len(retry.waited) = retry.max - 1
          /\ retryOperation(retry.fails, retry.max) = [ok |-> FALSE, attempts |-> retry.max]

\* C13: retryOperation ends; it invokes the operation at most maxRetries times and not
\* again after a success, sleeps delayMs * attempt between a failed attempt and the next
\* only, and after maxRetries failures throws the error of the last attempt.
C13_RetryTerminates == [](RetrySafe) /\ <>(retry.pc \in RetryDone)

\* C13 witness: the third attempt succeeded, after two failures and two sleeps.
C13_Witness ==
    /\ retry.pc = "returned" /\ retry.calls = 3
    /\ retry.waited = <<retry.delayMs, 2 * retry.delayMs>>

----------------------------------------------------------------------------
(* Startup over a snapshot that cannot be used *)

StartupFaults == {NoFault,
                  [NoFault EXCEPT !.open = TRUE],
                  [NoFault EXCEPT !.kvRead = AllFail],
                  [NoFault EXCEPT !.kvRead = FirstFails],
                  [NoFault EXCEPT !.corrupt = TRUE]}

NextStartup ==
    \E f \in StartupFaults :
        \/ init(f)
        \/ manualRestore(f)

SpecStartup == InitRestore /\ [][NextStartup]_vars

\* C14: an init() whose restore step could not read the snapshot on any attempt, or
\* read a string that does not parse, completes with the handle open and leaves every
\* table as the steps before the restore left it.
C14_UnusableSnapshotIgnored ==
    [][(last'.op = "init" /\ last'.restore \in {"readFailed", "parseFailed"})
       => /\ last'.out = "ok"
          /\ db' = "open"
          /\ tables' = seedEncouragements(Cur).tables]_vars

\* C14 witness: init() on an empty store with a snapshot that holds a user and does
\* not parse.
C14_Witness ==
    /\ last.op = "init" /\ last.restore = "parseFailed" /\ last.out = "ok"
    /\ db = "open"
    /\ tables["users"] = {} /\ snapshot.user # << >>

----------------------------------------------------------------------------
(* The encouragement catalog beside backup and restore *)

\* UPDATE encouragements SET seen = 1 WHERE id = ?
markSeen(st, id) ==
    IF ~st.ok THEN st
    ELSE [st EXCEPT !.tables["encouragements"] =
              {IF e.id = id THEN [e EXCEPT !.seen = 1] ELSE e : e \in @}]

\* initializes lazily and returns without a word when that fails; a failing UPDATE throws
markEncouragementAsSeen(id, f) ==
    \E i \in {lazyInit(Cur, f)} :
       IF i.threw
       THEN Commit(i.w, [Called("markEncouragementAsSeen") EXCEPT !.fault = TRUE])
       ELSE \E st \in {markSeen(FailIf(St(i.w.tables, i.w.seq), f.stmt = 1), id)} :
               Commit(withoutBackup(i.w, st),
                      [Called("markEncouragementAsSeen") EXCEPT
                           !.out = IF st.ok THEN "ok" ELSE "throw", !.fault = ~st.ok,
                           !.kvRead = i.kvRead, !.replayed = i.replayed])

\* UPDATE encouragements SET seen = 0; throws without a handle
resetAllEncouragements(f) ==
    IF db = "null"
    THEN Commit(Cur, [Called("resetAllEncouragements") EXCEPT !.out = "throw"])
    ELSE \E st \in {resetSeen(FailIf(St(tables, seq), f.stmt = 1))} :
            Commit(withoutBackup(Cur, st),
                   [Called("resetAllEncouragements") EXCEPT
                        !.out = IF st.ok THEN "ok" ELSE "throw", !.fault = ~st.ok])

EncouragementIds == 1..SeedSize

NextCatalog ==
    \E f \in Faults :
        \/ init(f)
        \/ \E n \in Names : createUser(n, f)
        \/ \E n \in Names : saveSupportPerson(n, "p", f)
        \/ clearUserData(f)
        \/ manualBackup(f)
        \/ manualRestore(f)
        \/ \E id \in EncouragementIds : markEncouragementAsSeen(id, f)
        \/ resetAllEncouragements(f)

SpecCatalog == Init /\ [][NextCatalog]_vars

\* C15: a snapshot that a call writes has no catalog in it and is the same whatever the
\* catalog holds; a call that is a restore, alone or as the last step of init(), leaves
\* the encouragements rows as they were before its restore step: no row added, removed
\* or changed.
C15_CatalogOutsideBackup ==
    [][/\ "encouragements" \notin DOMAIN snapshot'
       /\ last'.backup = "ok" =>
              snapshot' = backupObject([tables' EXCEPT !["encouragements"] = {}], now)
       /\ (last'.op \in {"init", "restoreDataIfNeeded"} /\ last'.restore # "none") =>
              tables'["encouragements"] =
                  IF last'.op = "init" \/ db = "null"
                  THEN seedEncouragements(Cur).tables["encouragements"]
                  ELSE tables["encouragements"]]_vars

\* C15 witness: a restore replayed a snapshot holding a user over a store whose catalog
\* has a message marked seen.
C15_Witness ==
    /\ last.op = "restoreDataIfNeeded" /\ last.replayed /\ last.restore = "replayed"
    /\ snapshot.present /\ snapshot.user # << >>
    /\ tables["users"] # {}
    /\ \E e \in tables["encouragements"] : e.seen = 1

----------------------------------------------------------------------------
(* The SOS log that must not get in the way *)

\* what logSOSActivation has to leave and return, given the sos_logs rows its lazy
\* initialization left (`pre`), the rows after the call and the record of the call
SosOutcome(pre, post, l) ==
    /\ l.out = "ok"
    /\ l.fault => (l.ret = 0 /\ post = pre)
    /\ ~l.fault =>
          /\ l.ret > 0
          /\ l.ret \notin {x.id : x \in pre}
          /\ \E x \in post : x.id = l.ret /\ x.timestamp = now /\ post = pre \cup {x}

\* C16: logSOSActivation never throws.  When its initialization or its insert fails it
\* returns 0 and sos_logs holds what it held (after the restore of a lazy
\* initialization, if there was one); when the insert succeeds it returns the id of
\* the new row, whether or not the backup that follows succeeds.
C16_SosNeverThrows ==
    [][last'.op = "logSOSActivation" =>
          SosOutcome(IF last'.replayed
                     THEN restoreReplay(tables, seq, snapshot).tables["sos_logs"]
                     ELSE tables["sos_logs"],
                     tables'["sos_logs"], last')]_vars

\* C16 witness: a log whose insert succeeded and whose backup failed on every attempt.
C16_Witness ==
    /\ last.op = "logSOSActivation" /\ last.backup = "failed" /\ ~last.fault
    /\ last.ret > 0
    /\ \E x \in tables["sos_logs"] : x.id = last.ret

----------------------------------------------------------------------------
(* One support person, saved again and again *)

Phones == {"p", "q"}

NextSupport ==
    \E f \in Faults :
        \/ init(f)
        \/ \E n \in Names, ph \in Phones : saveSupportPerson(n, ph, f)
        \/ getSupportPerson(f)
        \/ manualRestore(f)

SpecSupport == Init /\ [][NextSupport]_vars

\* the one row a save of (name, phone) leaves, under the id it returned
SavedAlone(rows, name, phone, id) ==
    /\ Cardinality(rows) = 1
    /\ \A r \in rows : r.name = name /\ r.phone = phone /\ r.id = id

\* C17: a saveSupportPerson that succeeds, whatever was saved before it, leaves
\* support_persons with exactly one row, holding the name and phone of this call; a
\* getSupportPerson that follows it and whose query runs returns that row, by name and
\* phone.
C17_LastSavedSupportPerson ==
    [][/\ \A n \in Names, ph \in Phones, f \in Faults :
             (saveSupportPerson(n, ph, f) /\ last'.op = "saveSupportPerson" /\ last'.out = "ok")
                 => /\ SavedAlone(tables'["support_persons"], n, ph, last'.ret)
                    /\ getSupportPersonRead(tables') \in Seq(tables'["support_persons"])
                    /\ Len(getSupportPersonRead(tables')) = 1
       /\ (last.op = "saveSupportPerson" /\ last.out = "ok"
            /\ last'.op = "getSupportPerson" /\ ~last'.fault)
               => /\ Len(last'.rows) = 1
                  /\ SavedAlone(tables["support_persons"], last'.rows[1].name,
                                last'.rows[1].phone, last.ret)
                  /\ tables' = tables]_vars

\* C17 witness: a read after the second of two successful saves returned the name and
\* phone of the second save, the one row of the table.
C17_Witness ==
    /\ last.op = "getSupportPerson" /\ ~last.fault
    /\ Len(last.rows) = 1 /\ last.rows[1].id = 2
    /\ Cardinality(tables["support_persons"]) = 1
    /\ seq["support_persons"] = 2

----------------------------------------------------------------------------
(* init(), await by await, with more than one caller.
   Every open succeeds and no statement fails here; the startup timer is taken to
   fire only while the startup init() still awaits openDatabaseAsync. *)

\* the callers of init(): the root layout's effect, its retry, and the reads that
\* initialize lazily
LazyReaders == {"getUser", "getSupportPerson"}
Callers == {"layout", "layoutRetry"} \cup LazyReaders

\* an init() just entered: `this.db` was null, nothing to close; it awaits
\* openDatabaseAsync.  (wasEmpty: what its seed count found; k: the seed messages it
\* has inserted; timedOut: its caller's 15 s timer won the race)
Entered(caller) ==
    [caller |-> caller, pc |-> "open", wasEmpty |-> FALSE, k |-> 0, timedOut |-> FALSE]

HasCalled(caller) == \E i \in DOMAIN inits : inits[i].caller = caller

enterInit(caller) ==
    /\ Len(inits) < MaxInits
    /\ caller \in Callers /\ ~HasCalled(caller)
    /\ db = "null"
    /\ inits' = Append(inits, Entered(caller))
    /\ UNCHANGED <<db, tables, seq, snapshot, now, last, call, backedUp, retry, schema>>

\* useEffect of the root layout: database.init() raced against the timer
layoutInit == enterInit("layout")

\* a read called while the handle is null: `if (!this.db) { await this.init() }`
lazyInitCall(op) == enterInit(op)

\* the timer rejects while init() is still opening the database; init() goes on
layoutTimeout ==
    \E i \in DOMAIN inits :
       /\ inits[i].caller = "layout" /\ inits[i].pc = "open" /\ ~inits[i].timedOut
       /\ inits' = [inits EXCEPT ![i].timedOut = TRUE]
       /\ UNCHANGED <<db, tables, seq, snapshot, now, last, call, backedUp, retry, schema>>

\* the catch of the layout: 2 s later, database.init() again
layoutRetry ==
    /\ \E i \in DOMAIN inits : inits[i].caller = "layout" /\ inits[i].timedOut
    /\ enterInit("layoutRetry")

\* this.db = await openDatabaseAsync(...); migrateDatabase and createTables find the
\* current schema and change no row
initOpened(i) ==
    /\ inits[i].pc = "open"
    /\ db' = "open"
    /\ inits' = [inits EXCEPT ![i].pc = "count"]
    /\ UNCHANGED <<tables, seq, snapshot, now, last, call, backedUp, retry, schema>>

\* seedEncouragements: SELECT COUNT(*) FROM encouragements
initCounted(i) ==
    /\ inits[i].pc = "count"
    /\ inits' = [inits EXCEPT ![i].wasEmpty = (tables["encouragements"] = {}),
                              ![i].pc = IF tables["encouragements"] = {}
                                        THEN "insert" ELSE "restore"]
    /\ UNCHANGED <<db, tables, seq, snapshot, now, last, call, backedUp, retry, schema>>

\* seedEncouragements: the awaited INSERTs of the loop, one after the other
initInserted(i) ==
    /\ inits[i].pc = "insert"
    /\ tables' = [tables EXCEPT !["encouragements"] =
                      @ \cup {[id |-> seq["encouragements"] + 1, seen |-> 0]}]
    /\ seq' = [seq EXCEPT !["encouragements"] = @ + 1]
    /\ inits' = [inits EXCEPT ![i].k = @ + 1,
                              ![i].pc = IF inits[i].k + 1 = SeedSize THEN "restore" ELSE "insert"]
    /\ UNCHANGED <<db, snapshot, now, last, call, backedUp, retry, schema>>

\* restoreDataIfNeeded as the last step of init()
initRestored(i) ==
    /\ inits[i].pc = "restore"
    /\ \E r \in {restoreOpen(Cur, NoFault)} :
          /\ tables' = r.w.tables
          /\ seq' = r.w.seq
    /\ inits' = [inits EXCEPT ![i].pc = "done"]
    /\ UNCHANGED <<db, snapshot, now, last, call, backedUp, retry, schema>>

\* the read of a lazy caller, once its init() has returned
lazyReturned(i) ==
    /\ inits[i].pc = "done" /\ inits[i].caller \in LazyReaders
    /\ inits' = [inits EXCEPT ![i].pc = "returned"]
    /\ last' = [Quiet EXCEPT !.op = inits[i].caller, !.dbWasNull = TRUE,
                             !.rows = LatestRow(tables, IF inits[i].caller = "getUser"
                                                        THEN "users" ELSE "support_persons")]
    /\ UNCHANGED <<db, tables, seq, snapshot, now, call, backedUp, retry, schema>>

InitRace ==
    /\ db = "null"
    /\ tables = EmptyTables
    /\ seq = ZeroSeq
    /\ snapshot \in WrittenSnapshots
    /\ now = 0
    /\ last = Quiet
    /\ call = Idle
    /\ AsideIdle
    /\ backedUp = UserPart(EmptyTables)

NextRace ==
    \/ layoutInit
    \/ \E op \in LazyReaders : lazyInitCall(op)
    \/ layoutTimeout
    \/ layoutRetry
    \/ \E i \in DOMAIN inits : initOpened(i)
    \/ \E i \in DOMAIN inits : initCounted(i)
    \/ \E i \in DOMAIN inits : initInserted(i)
    \/ \E i \in DOMAIN inits : initRestored(i)
    \/ \E i \in DOMAIN inits : lazyReturned(i)

SpecRace == InitRace /\ [][NextRace]_vars

\* C18: callers that find the handle null share one initialization: the sequence
\* open, migrate, create tables, seed, restore is entered once, however many callers
\* there are, the startup init() with its timer and retry among them.
C18_InitRunsOnce == Len(inits) <= 1

\* the first seeding is over: an init() that found the catalog empty has inserted
\* every seed message
SeededOnce ==
    \E i \in DOMAIN inits :
       inits[i].wasEmpty /\ inits[i].pc \in {"restore", "done", "returned"}

\* C20: once the first seeding is over, no step of any caller adds or removes a row of
\* encouragements.
C20_CatalogSizeFixed ==
    [][SeededOnce =>
          {e.id : e \in tables'["encouragements"]} = {e.id : e \in tables["encouragements"]}]_vars

----------------------------------------------------------------------------
(* migrateDatabase over tables created before updated_at existed.
   schema[tn]: whether tn has the column updated_at; a row's updated_at is NullTime
   while the column is missing or holds NULL. *)

MigratedTables == {"journal_entries", "intentions"}

\* the statement of migrateDatabase that throws in a run, if any: the daily_check_ins
\* part before the two tables, or the PRAGMA, ALTER or UPDATE of one of them
NoMigrationFault == [at |-> "none", tn |-> "none"]
MigrationFaults ==
    {NoMigrationFault, [at |-> "check_ins", tn |-> "none"]}
    \cup {[at |-> a, tn |-> tn] : a \in {"pragma", "alter", "update"}, tn \in MigratedTables}

\* UPDATE tn SET updated_at = created_at WHERE updated_at IS NULL
backfill(rows) ==
    {IF r.updated_at = NullTime THEN [r EXCEPT !.updated_at = r.created_at] ELSE r : r \in rows}

\* the block of one table, its PRAGMA done: nothing when the column is there; else ALTER
\* then UPDATE inside a try whose catch only logs.  mg = [tables, schema, threw]
migrateTable(mg, tn, m) ==
    IF mg.schema[tn] THEN mg
    ELSE IF m.tn = tn /\ m.at = "alter" THEN mg
    ELSE IF m.tn = tn /\ m.at = "update" THEN [mg EXCEPT !.schema[tn] = TRUE]
    ELSE [mg EXCEPT !.schema[tn] = TRUE, !.tables[tn] = backfill(@)]

\* a table's PRAGMA and block; a throwing PRAGMA reaches the outer catch, which ends
\* the migration
migrateStep(mg, tn, m) ==
    IF mg.threw THEN mg
    ELSE IF m.tn = tn /\ m.at = "pragma" THEN [mg EXCEPT !.threw = TRUE]
    ELSE migrateTable(mg, tn, m)

migrateDatabase(t, sch, m) ==
    migrateStep(migrateStep([tables |-> t, schema |-> sch, threw |-> (m.at = "check_ins")],
                            "journal_entries", m),
                "intentions", m)

\* init() over such a store: open, migrateDatabase, then the rest of init()
initMigrating(m, f) ==
    \E mg \in {IF f.open THEN [tables |-> tables, schema |-> schema, threw |-> FALSE]
                ELSE migrateDatabase(tables, schema, m)} :
       \E r \in {initDb([Cur EXCEPT !.tables = mg.tables], f)} :
          /\ db' = r.w.db
          /\ tables' = r.w.tables
          /\ seq' = r.w.seq
          /\ snapshot' = r.w.snapshot
          /\ backedUp' = r.w.backedUp
          /\ schema' = mg.schema
          /\ last' = [Called("init") EXCEPT !.out = IF r.threw THEN "throw" ELSE "ok",
                                            !.fault = r.threw \/ (~f.open /\ m.at # "none"),
                                            !.restore = r.w.rs]
          /\ UNCHANGED <<now, call, retry, inits>>

\* rows written before the column existed (no updated_at), or after (updated_at set
\* as created_at by the insert)
entriesOf(ids, hasColumn) ==
    {[id |-> i, content |-> "c", timestamp |-> i, created_at |-> i,
      updated_at |-> IF hasColumn THEN i ELSE NullTime] : i \in ids}

OldSchemas == [MigratedTables -> BOOLEAN]

InitMigrate ==
    /\ db = "null"
    /\ schema \in OldSchemas
    /\ \E j \in SUBSET (1..MaxRows), i \in SUBSET (1..MaxRows) :
          tables = [EmptyTables EXCEPT
                       !["journal_entries"] = entriesOf(j, schema["journal_entries"]),
                       !["intentions"] = entriesOf(i, schema["intentions"])]
    /\ seq = seqOf(tables)
    /\ snapshot = NoSnapshot
    /\ now = MaxRows
    /\ last = Quiet
    /\ call = Idle
    /\ retry = RetryIdle
    /\ inits = NoInits
    /\ backedUp = UserPart(EmptyTables)

NextMigrate ==
    \E m \in MigrationFaults, f \in {NoFault, [NoFault EXCEPT !.open = TRUE]} :
        initMigrating(m, f)

SpecMigrate == InitMigrate /\ [][NextMigrate]_vars

\* C19: after an init() that returned, every row of journal_entries and of intentions
\* that was there before it has updated_at set, and equal to its created_at, also when
\* a statement of the migration threw in this run or in an earlier one.
C19_MigrationBackfill ==
    [][(last'.op = "init" /\ last'.out = "ok") =>
          \A tn \in MigratedTables : \A r \in tables'[tn] :
             r.updated_at # NullTime /\ r.updated_at = r.created_at]_vars

----------------------------------------------------------------------------
(* Clearing the user's data *)

\* C21: a clearUserData that returns normally has emptied every table of user content
\* and left the encouragements rows as they were (as its lazy initialization seeded
\* them, when it had to initialize): same rows, same seen flags.
C21_ClearUserDataKeepsCatalog ==
    [][(last'.op = "clearUserData" /\ last'.out = "ok" /\ ~last'.fault) =>
          /\ \A tn \in UserTables : tables'[tn] = {}
          /\ tables'["encouragements"] =
                 IF db = "null" THEN seedEncouragements(Cur).tables["encouragements"]
                 ELSE tables["encouragements"]]_vars

----------------------------------------------------------------------------
(* The journal: written, edited, listed *)

\* UPDATE tn SET <set> WHERE id = ?  (`set`: the columns assigned, with their values)
updateById(st, tn, id, set) ==
    IF ~st.ok THEN st
    ELSE [st EXCEPT !.tables[tn] =
              {IF r.id = id
               THEN [c \in DOMAIN r |-> IF c \in DOMAIN set THEN set[c] ELSE r[c]]
               ELSE r : r \in @}]

\* the UPDATE with updated_at, and when it throws the UPDATE of the content alone
\* (f.stmt = 1: the first throws; f.stmt = 2: the first and the fallback throw)
updateWithFallback(st, tn, id, content, f) ==
    IF f.stmt = 1 THEN updateById(st, tn, id, [content |-> content])
    ELSE IF f.stmt = 2 THEN Throw(st)
    ELSE updateById(st, tn, id, [content |-> content, updated_at |-> now])

updateJournalEntry(id, content, f) ==
    \E i \in {lazyInit(Cur, f)} :
       IF i.threw
       THEN Commit(i.w, [Called("updateJournalEntry") EXCEPT !.out = "throw", !.fault = TRUE])
       ELSE \E st \in {updateWithFallback(St(i.w.tables, i.w.seq), "journal_entries",
                                          id, content, f)} :
               Commit(afterTry(i.w, st, f),
                      [Called("updateJournalEntry") EXCEPT
                           !.out = IF st.ok THEN "ok" ELSE "throw",
                           !.ret = id, !.fault = ~st.ok,
                           !.kvRead = i.kvRead, !.replayed = i.replayed])

\* initializes lazily; [] when the initialization or the query fails
getJournalEntries(f) ==
    \E i \in {lazyInit(Cur, f)} :
       Commit(i.w, [Called("getJournalEntries") EXCEPT
                        !.rows = IF i.threw \/ f.stmt = 1 THEN << >>
                                 ELSE getJournalEntriesRead(i.w.tables),
                        !.fault = i.threw \/ f.stmt = 1,
                        !.kvRead = i.kvRead, !.replayed = i.replayed])

NextJournal ==
    \/ Tick
    \/ \E f \in {g \in Faults : g.kvWrite = AllOk /\ g.kvRead = AllOk} :
          \/ init(f)
          \/ \E c \in {"A", "B"} : createJournalEntry(c, f)
          \/ \E id \in 1..MaxRows : updateJournalEntry(id, "E", f)
          \/ getJournalEntries(f)

SpecJournal == Init /\ [][NextJournal]_vars

IdsInOrder(rows) == [k \in 1..Len(rows) |-> rows[k].id]

\* every row of the table once, later timestamps first
AllByTimestampDesc(rows, table) ==
    /\ Len(rows) = Cardinality(table)
    /\ {rows[k] : k \in 1..Len(rows)} = table
    /\ \A k \in 1..Len(rows) : \A l \in 1..Len(rows) :
          k < l => rows[k].timestamp >= rows[l].timestamp

\* the edit of entry id touched nothing but the content and updated_at of that entry
OnlyEdited(before, after, id) ==
    /\ {r.id : r \in after} = {r.id : r \in before}
    /\ Cardinality(after) = Cardinality(before)
    /\ \A r \in before : r.id # id => r \in after
    /\ \A r \in before : \A e \in after :
          (r.id = id /\ e.id = id) =>
              /\ e.created_at = r.created_at /\ e.timestamp = r.timestamp
              /\ e.content = "E"

\* C22: getJournalEntries, when its query runs, returns every journal entry, later
\* timestamps first; an updateJournalEntry(id, content) that returns normally gives
\* entry id the new content, leaves its created_at and timestamp, leaves every other
\* entry, and leaves the order in which getJournalEntries lists the entries.
C22_JournalOrderAndEdit ==
    [][/\ (last'.op = "getJournalEntries" /\ ~last'.fault) =>
              /\ AllByTimestampDesc(last'.rows, tables'["journal_entries"])
              /\ last'.rows = getJournalEntriesRead(tables')
       /\ (last'.op = "updateJournalEntry" /\ last'.out = "ok" /\ ~last'.replayed) =>
              /\ OnlyEdited(tables["journal_entries"], tables'["journal_entries"], last'.ret)
              /\ IdsInOrder(getJournalEntriesRead(tables'))
                     = IdsInOrder(getJournalEntriesRead(tables))]_vars

\* C22 witness: the older of two entries written at different times was edited later
\* still, and the list that followed shows it second, with the new content.
C22_Witness ==
    /\ last.op = "getJournalEntries" /\ ~last.fault
    /\ Len(last.rows) = 2
    /\ last.rows[1].timestamp > last.rows[2].timestamp
    /\ last.rows[2].content = "E"
    /\ last.rows[2].updated_at > last.rows[1].timestamp

----------------------------------------------------------------------------
(* calculateSobrietyDaysByDate.
   Instants are whole hours counted from the local midnight that begins day 1.  The
   Date getters and the Date(y, m, d) constructor work in the zone of the device; in a
   zone with daylight saving time the day the clocks go forward has 23 hours. *)

MsPerHour == 3600000
MsPerDay == 86400000
SpringForwardDay == 2

\* the hours of local day d (dst: the zone of the device observes daylight saving time)
hoursOf(d, dst) == IF dst /\ d = SpringForwardDay THEN 23 ELSE 24

\* new Date(y, m, d): the instant of the local midnight that begins day d
RECURSIVE startOfDay(_, _)
startOfDay(d, dst) == IF d = 1 THEN 0 ELSE startOfDay(d - 1, dst) + hoursOf(d - 1, dst)

Instants(dst) == 0..(startOfDay(MaxDays + 1, dst) - 1)

\* getFullYear / getMonth / getDate: the local day an instant falls on
dayOf(h, dst) == CHOOSE d \in 1..MaxDays : startOfDay(d, dst) <= h /\ h < startOfDay(d + 1, dst)

\* Math.floor(x / y) for y > 0
FloorDiv(x, y) == IF x >= 0 THEN x \div y ELSE -((-x + y - 1) \div y)

calculateSobrietyDaysByDate(soberDate, clock, dst) ==
    FloorDiv((startOfDay(dayOf(clock, dst), dst) - startOfDay(dayOf(soberDate, dst), dst))
                 * MsPerHour,
             MsPerDay)

\* the sober date stored, the clock and the zone of the device when a screen asks for
\* the count
InitSobriety ==
    /\ db = "null"
    /\ tables = EmptyTables
    /\ seq = ZeroSeq
    /\ snapshot = NoSnapshot
    /\ now = 0
    /\ \E dst \in BOOLEAN :
          \E soberDate \in Instants(dst), clock \in Instants(dst) :
             last = [Quiet EXCEPT !.rows = <<[soberDate |-> soberDate, clock |-> clock,
                                             dst |-> dst]>>]
    /\ call = Idle
    /\ AsideIdle
    /\ backedUp = UserPart(EmptyTables)

\* the screen computes the count (soberDay, today: the calendar days of the two instants)
showSobrietyDays ==
    /\ last.op = "none"
    /\ \E in \in {last.rows[1]} :
          last' = [Quiet EXCEPT
                      !.op = "calculateSobrietyDaysByDate",
                      !.ret = calculateSobrietyDaysByDate(in.soberDate, in.clock, in.dst),
                      !.rows = <<[soberDay |-> dayOf(in.soberDate, in.dst),
                                  soberDate |-> in.soberDate,
                                  today |-> dayOf(in.clock, in.dst),
                                  clock |-> in.clock, dst |-> in.dst]>>]
    /\ UNCHANGED <<db, tables, seq, snapshot, now, call, backedUp, aside>>

SpecSobriety == InitSobriety /\ [][showSobrietyDays]_vars

\* C23: the count is the number of calendar days from the day of the sober date to
\* today, whatever the time of day of either: 0 within one day, 1 from any time
\* yesterday to any time today.
C23_CalendarDayCount ==
    last.op = "calculateSobrietyDaysByDate" =>
        last.ret = last.rows[1].today - last.rows[1].soberDay

----------------------------------------------------------------------------
(* One migration step failing, and the steps after it *)

\* C24: whichever statement of migrateDatabase throws, init() returns normally, and
\* every table whose own step had no failure has its updated_at column after the run.
C24_MigrationStepsIndependent ==
    [][\A m \in MigrationFaults :
          initMigrating(m, NoFault) =>
              /\ last'.out = "ok" /\ db' = "open"
              /\ \A tn \in MigratedTables : m.tn # tn => schema'[tn]]_vars

----------------------------------------------------------------------------
(* The rebuild of daily_check_ins that drops the column feeling.
   Here `tables` has one more key, daily_check_ins_new, and `schema` says which of the
   two tables exist and whether daily_check_ins still has the old column. *)

RebuildSteps == <<"create", "copy", "drop", "rename">>

\* where a run of the rebuild ends early, if it does: statement `at` throws, or the
\* process is killed before it
Stops == {[at |-> 0, how |-> "none"]}
         \cup {[at |-> k, how |-> h] : k \in DOMAIN RebuildSteps, h \in {"throw", "kill"}}

\* INSERT INTO daily_check_ins_new (goal, ..., created_at) SELECT ... FROM daily_check_ins:
\* new rowids in the order of the old ones; one statement, so a date already in the
\* new table (UNIQUE) fails it whole.  rb = [tables, schema, threw]
copyCheckIns(rb) ==
    IF \E o \in rb.tables["daily_check_ins"], n \in rb.tables["daily_check_ins_new"] :
          o.date = n.date
    THEN [rb EXCEPT !.threw = TRUE]
    ELSE [rb EXCEPT !.tables["daily_check_ins_new"] =
              @ \cup {[o EXCEPT !.id = MaxRowId(rb.tables["daily_check_ins_new"])
                                      + Cardinality({x \in rb.tables["daily_check_ins"] :
                                                        x.id <= o.id})]
                       : o \in rb.tables["daily_check_ins"]}]

rebuildStep(rb, k, stop) ==
    IF rb.threw \/ stop.at = k THEN [rb EXCEPT !.threw = TRUE]
    ELSE CASE RebuildSteps[k] = "create" -> [rb EXCEPT !.schema.check_ins_new = TRUE]
           [] RebuildSteps[k] = "copy" -> copyCheckIns(rb)
           [] RebuildSteps[k] = "drop" ->
                  [rb EXCEPT !.schema.check_ins = FALSE, !.tables["daily_check_ins"] = {}]
           [] RebuildSteps[k] = "rename" ->
                  [rb EXCEPT !.schema.check_ins = TRUE, !.schema.feeling = FALSE,
                             !.schema.check_ins_new = FALSE,
                             !.tables["daily_check_ins"] = rb.tables["daily_check_ins_new"],
                             !.tables["daily_check_ins_new"] = {}]

RECURSIVE rebuildFrom(_, _, _)
rebuildFrom(rb, k, stop) ==
    IF k > Len(RebuildSteps) THEN rb ELSE rebuildFrom(rebuildStep(rb, k, stop), k + 1, stop)

\* the daily_check_ins part of migrateDatabase: nothing unless the table exists and
\* has the column feeling
rebuildCheckIns(t, sch, stop) ==
    IF sch.check_ins /\ sch.feeling
    THEN rebuildFrom([tables |-> t, schema |-> sch, threw |-> FALSE], 1, stop)
    ELSE [tables |-> t, schema |-> sch, threw |-> FALSE]

\* CREATE TABLE IF NOT EXISTS daily_check_ins (...)
createCheckInsTable(rb) ==
    IF rb.schema.check_ins THEN rb
    ELSE [rb EXCEPT !.schema.check_ins = TRUE, !.schema.feeling = FALSE]

\* init() over such a store.  A kill ends the process where the rebuild stood; a throw
\* is caught by migrateDatabase and init() goes on with createTables, seed and restore.
initRebuilding(stop) ==
    \E rb \in {rebuildCheckIns(tables, schema, stop)} :
       IF stop.how = "kill" /\ rb.threw
       THEN /\ tables' = rb.tables
            /\ schema' = rb.schema
            /\ db' = "null"
            /\ last' = [Called("init") EXCEPT !.out = "killed", !.ret = stop.at]
            /\ UNCHANGED <<seq, snapshot, now, call, backedUp, retry, inits>>
       ELSE \E c \in {createCheckInsTable(rb)} :
            \E r \in {initDb([Cur EXCEPT !.tables = c.tables], NoFault)} :
               /\ db' = r.w.db
               /\ tables' = r.w.tables
               /\ seq' = [r.w.seq EXCEPT !["daily_check_ins"] =
                              MaxRowId(r.w.tables["daily_check_ins"])]
               /\ snapshot' = r.w.snapshot
               /\ backedUp' = r.w.backedUp
               /\ schema' = c.schema
               /\ last' = [Called("init") EXCEPT !.fault = rb.threw, !.ret = stop.at,
                                                 !.restore = r.w.rs]
               /\ UNCHANGED <<now, call, retry, inits>>

\* a store of the release that had the column: a user, a journal entry, check-ins.  It
\* has no snapshot, or one taken before the check-ins were written.
InitRebuild ==
    /\ db = "null"
    /\ \E u \in NoneOrOne, j \in NoneOrOne, c \in (SUBSET (1..(MaxRows + 1))) \ {{}} :
          tables = [tn \in TableNames \cup {"daily_check_ins_new"} |->
                       IF tn = "daily_check_ins_new" THEN {}
                       ELSE storeOf("a", u, {}, {}, {}, {}, j, {}, c, 0)[tn]]
    /\ seq = seqOf(tables)
    /\ schema = CurrentSchema @@
                [check_ins |-> TRUE, feeling |-> TRUE, check_ins_new |-> FALSE]
    /\ snapshot = NoSnapshot
    /\ now = MaxRows
    /\ last = Quiet
    /\ call = Idle
    /\ retry = RetryIdle
    /\ inits = NoInits
    /\ backedUp = UserPart(EmptyTables)

NextRebuild == \E stop \in Stops : initRebuilding(stop)

SpecRebuild == InitRebuild /\ [][NextRebuild]_vars

\* a check-in as the user wrote it
CheckInContent(r) == [goal |-> r.goal, energy |-> r.energy, tone |-> r.tone,
                      thankful |-> r.thankful, date |-> r.date, created_at |-> r.created_at]

\* C25: no run of init(), wherever its rebuild stops, loses or doubles a check-in: every
\* row daily_check_ins held before the run is in daily_check_ins once after it.
C25_RebuildKeepsCheckIns ==
    [][\A r \in tables["daily_check_ins"] :
          Cardinality({x \in tables'["daily_check_ins"] :
                          CheckInContent(x) = CheckInContent(r)}) = 1]_vars

----------------------------------------------------------------------------
(* What was cleared stays cleared *)

\* C26: after a clearUserData or clearAllData that returned normally, whether or not
\* its backup was written, an init(), resetDatabase or restoreDataIfNeeded that comes
\* next leaves every table of user content empty.
C26_ClearedStaysCleared ==
    [][(/\ last.op \in {"clearUserData", "clearAllData"}
        /\ last.out = "ok" /\ ~last.fault
        /\ last'.op \in {"init", "resetDatabase", "restoreDataIfNeeded"})
          => \A tn \in UserTables : tables'[tn] = {}]_vars

----------------------------------------------------------------------------
(* A create whose backup is overtaken.
   createJournalEntry is taken await by await: its INSERT, the reads of its
   backupData(), the write of the snapshot.  Other writes run between its steps. *)

\* the INSERT of createJournalEntry, with the handle open
entryInsert(content) ==
    /\ call.pc = "idle" /\ db = "open"
    /\ Inserted(seq) < MaxRows
    /\ \E st \in {Insert(St(tables, seq), "journal_entries", entryFields(content))} :
          /\ tables' = st.tables
          /\ seq' = st.seq
          /\ call' = [Idle EXCEPT !.pc = "read", !.op = "createJournalEntry",
                                  !.tn = "journal_entries", !.id = st.id]
    /\ UNCHANGED <<db, snapshot, now, last, backedUp, aside>>

\* backupData(): the eight reads and the backup object built from them
entryBackupRead ==
    /\ call.pc = "read"
    /\ call' = [call EXCEPT !.pc = "write",
                            !.fields = [object |-> backupObject(tables, now),
                                        part |-> UserPart(tables)]]
    /\ UNCHANGED <<db, tables, seq, snapshot, now, last, backedUp, aside>>

\* backupData(): AsyncStorage.setItem, succeeding (at once or on a retry); then the
\* create returns the new rowid
entryBackupWrite ==
    /\ call.pc = "write"
    /\ snapshot' = call.fields.object
    /\ backedUp' = call.fields.part
    /\ last' = [Called(call.op) EXCEPT !.ret = call.id, !.backup = "ok", !.during = TRUE]
    /\ call' = Idle
    /\ UNCHANGED <<db, tables, seq, now, aside>>

NextOverlap ==
    \/ Tick
    \/ init(NoFault)
    \/ \E c \in {"A"} : entryInsert(c)
    \/ entryBackupRead
    \/ entryBackupWrite
    \/ createIntention("c", NoFault)
    \/ \E n \in Names : saveSupportPerson(n, "p", NoFault)

SpecOverlap == Init /\ [][NextOverlap]_vars

\* C27: when the create whose steps were interleaved with other writes returns, every
\* backup having succeeded and no call being in flight, the snapshot stored is the
\* snapshot of the store as it is.
C27_LastSnapshotIsFinalState ==
    (call.pc = "idle" /\ last.op = "createJournalEntry" /\ last.during /\ last.backup = "ok")
        => /\ backedUp = UserPart(tables)
           /\ snapshot = backupObject(tables, snapshot.timestamp)

----------------------------------------------------------------------------
(* A read that finds the handle installed by an init() still at work *)

\* an init() has set this.db and has not finished its seed or its restore
InitInProgress == \E i \in DOMAIN inits : inits[i].pc \in {"count", "insert", "restore"}

\* getSupportPerson() called then: `!this.db` is false, so it goes to its query
readDuringInit ==
    /\ db = "open" /\ InitInProgress
    /\ getSupportPerson(NoFault)

NextReadRace == NextRace \/ readDuringInit

SpecReadRace == InitRace /\ [][NextReadRace]_vars

\* C28: a getSupportPerson issued while an init() is between installing the handle and
\* the end of its restore returns null only if the store, once that restore is done,
\* holds no support person.
C28_NoReadDuringInit ==
    [][(last'.op = "getSupportPerson" /\ last' # last /\ db = "open" /\ InitInProgress)
          => (last'.rows = << >> =>
                 restoreOpen(Cur, NoFault).w.tables["support_persons"] = {})]_vars

----------------------------------------------------------------------------
(* Overlapping init() calls and the handle.
   Here an open may be rejected, the startup timer may fire at any point of the startup
   init(), and db is "closed" between the closeAsync of an init() and the moment an
   open installs a new handle.  An init() at its restore step with the handle null
   or closed is not followed further. *)

\* openDatabaseAsync rejects: the catch of init() sets this.db = null and rethrows
initOpenFailed(i) ==
    /\ inits[i].pc = "open"
    /\ db' = "null"
    /\ inits' = [inits EXCEPT ![i].pc = "failed"]
    /\ UNCHANGED <<tables, seq, snapshot, now, last, call, backedUp, retry, schema>>

\* a statement of the seeding finds no handle or a closed one and throws: same catch
initThrew(i) ==
    /\ inits[i].pc \in {"count", "insert"} /\ db # "open"
    /\ db' = "null"
    /\ inits' = [inits EXCEPT ![i].pc = "failed"]
    /\ UNCHANGED <<tables, seq, snapshot, now, last, call, backedUp, retry, schema>>

\* the timer of the layout rejects while its init() is past the open
layoutTimeoutLate ==
    \E i \in DOMAIN inits :
       /\ inits[i].caller = "layout" /\ inits[i].pc \in {"count", "insert", "restore"}
       /\ ~inits[i].timedOut
       /\ inits' = [inits EXCEPT ![i].timedOut = TRUE]
       /\ UNCHANGED <<db, tables, seq, snapshot, now, last, call, backedUp, retry, schema>>

\* the retry of the layout finds a handle: init() closes it, then awaits the open
retryClosing ==
    /\ \E i \in DOMAIN inits : inits[i].caller = "layout" /\ inits[i].timedOut
    /\ Len(inits) < MaxInits /\ ~HasCalled("layoutRetry")
    /\ db = "open"
    /\ db' = "closed"
    /\ inits' = Append(inits, Entered("layoutRetry"))
    /\ UNCHANGED <<tables, seq, snapshot, now, last, call, backedUp, retry, schema>>

NextHandle ==
    \/ layoutInit
    \/ \E op \in LazyReaders : lazyInitCall(op)
    \/ layoutTimeout
    \/ layoutTimeoutLate
    \/ layoutRetry
    \/ retryClosing
    \/ \E i \in DOMAIN inits : initOpened(i)
    \/ \E i \in DOMAIN inits : initOpenFailed(i)
    \/ \E i \in DOMAIN inits : initThrew(i)
    \/ \E i \in DOMAIN inits : db = "open" /\ initCounted(i)
    \/ \E i \in DOMAIN inits : db = "open" /\ initInserted(i)
    \/ \E i \in DOMAIN inits : db = "open" /\ initRestored(i)
    \/ \E i \in DOMAIN inits : lazyReturned(i)

SpecHandle == InitRace /\ [][NextHandle]_vars

\* the init() entered last has resolved
LastInitResolved == Len(inits) > 0 /\ inits[Len(inits)].pc \in {"done", "returned"}

\* C29: no step closes the handle while an init() that set it or works on it is between
\* its open and the end of its restore; and when the init() entered last has resolved,
\* the handle is open, whatever became of the init() calls entered before it.
C29_HandleNotCorrupted ==
    /\ [][~(InitInProgress /\ db = "open" /\ db' = "closed")]_vars
    /\ [](LastInitResolved => db = "open")

----------------------------------------------------------------------------
(* A backup whose reads fail *)

ReadFaults ==
    {NoFault} \cup {[NoFault EXCEPT !.read = tn] : tn \in {"users", "support_persons",
                                                         "journal_entries"}}

NextBackup ==
    \/ Tick
    \/ \E f \in ReadFaults :
          \/ init(f)
          \/ \E n \in Names : createUser(n, f)
          \/ \E n \in Names : saveSupportPerson(n, "p", f)
          \/ createJournalEntry("c", f)
          \/ clearUserData(f)
          \/ manualBackup(f)

SpecBackup == Init /\ [][NextBackup]_vars

\* the key of the backup object that holds the rows of a table
SnapshotKey == [users |-> "user", support_persons |-> "supportPerson",
                sobriety_data |-> "sobrietyData", user_reasons |-> "userReasons",
                journal_entries |-> "journalEntries", intentions |-> "intentions",
                daily_check_ins |-> "dailyCheckIns", sos_logs |-> "sosLogs"]

\* C30: a backup replaces a snapshot that holds rows of a table by one that holds none
\* only when the table is empty in the store.
C30_BackupKeepsData ==
    [][\A tn \in UserTables :
          (snapshot[SnapshotKey[tn]] # << >> /\ snapshot'[SnapshotKey[tn]] = << >>)
              => tables'[tn] = {}]_vars

====
